---- MODULE Spec2Model ----
(***************************************************************************)
(* Roselite: the Veilid connection (roselite-core/src/veilid.rs) and the   *)
(* DHT-backed app store built on it (roselite-core/src/store.rs).          *)
(*                                                                         *)
(* SpecConn drives one VeilidConnection through connect, disconnect, the   *)
(* three DHT operations and the update callbacks.  Spec drives one         *)
(* VeilidStore (a connection that VeilidStore::new has connected) through  *)
(* publish, download, get_app, search and shutdown.                        *)
(***************************************************************************)
EXTENDS Integers, Sequences, FiniteSets, TLC

VARIABLES
    api,              \* VeilidConnection.api: "None" or "Some"
    state,            \* VeilidConnection.state: the ConnectionState record
    storage,          \* VeilidConnection.storage: the fallback HashMap
    routing_context,  \* VeilidConnection.routing_context is Some
    table,            \* column 0 of the Veilid TableStore table config.table_name
    core,             \* the Veilid core started by api_startup_json: "stopped",
                      \* "running" (it delivers updates) or "draining" (shut
                      \* down or dropped, update_callback tasks it spawned
                      \* may still run)
    pc,               \* position of the connection inside connect / disconnect
    attempt,          \* attach_with_retry: the loop variable
    attachLog,        \* attach_with_retry: what the current run has done so far
    last,             \* the operation that completed last, and its result
    pub,              \* VeilidStore::publish: position and locals
    npub,             \* publish calls begun so far
    delivered,        \* the updates the Veilid core has given to the closure of
                      \* init_veilid_api, in the order of the calls
    spawned,          \* the tasks the closure has spawned that have not run
                      \* update_callback yet: positions in delivered
    cache,            \* gateway: the AppCache, domain -> CachedApp
    disk,             \* gateway: the directories under cache_dir, domain ->
                      \* the files of the directory
    req,              \* gateway: the requests being handled, their position
                      \* in handle_request_internal and their locals
    store_lock,       \* gateway: the request holding AppState.store, or 0
    downloads,        \* gateway: the domains store.download was called for
    deleted,          \* gateway: a cache directory was deleted from outside
    txt,              \* gateway: domain -> its TXT data, for the domains
                      \* whose TXT record was changed while the gateway runs
    source_dir,       \* packaging: the files of PackageBuilder.source_dir, in
                      \* the order read_dir gives them
    builder,          \* packaging: the fields of the PackageBuilder
    built,            \* packaging: what PackageBuilder::build returned
    file,             \* packaging: the bytes of the .veilidpkg file
    loaded,           \* packaging: what Package::from_file returned
    downloaded,       \* packaging: what download returned after the loaded
                      \* package was published
    verified,         \* packaging: what Package::verify_signature returned,
                      \* and for which of the packages
    tampered,         \* packaging: the manifest field of the built package
                      \* that was changed after build signed it
    extracted,        \* packaging: what Package::extract_files returned for
                      \* the loaded package
    expect,           \* key -> the value of the last dht_set of the key that
                      \* returned Ok, unless a dht_delete that returned Ok
                      \* followed it
    asked,            \* the key of the last dht_get
    veil_uri,         \* URIs: the VeilUri to print
    uri_str,          \* URIs: the string given to parse_veil_uri
    parsed,           \* URIs: what parse_veil_uri returned
    watch             \* one publish that returned, picked to be followed: its
                      \* URI, its content, and whether its data is untouched

vars == <<api, state, storage, routing_context, table, core, pc,
          attempt, attachLog, last, pub, watch, npub,
          delivered, spawned, cache, disk, req, store_lock, downloads,
          deleted, txt, source_dir, builder, built, file, loaded, downloaded,
          verified, tampered, extracted, expect, asked,
          veil_uri, uri_str, parsed>>

\* the variables of the update callbacks and of the gateway
cbVars == <<delivered, spawned>>

gwVars == <<cache, disk, req, store_lock, downloads, deleted, txt>>

pkgVars == <<source_dir, builder, built, file, loaded, downloaded,
             verified, tampered, extracted>>

connVars == <<api, state, storage, routing_context>>

-----------------------------------------------------------------------------
(* Values *)

None == [kind |-> "none"]

AttachmentStates ==
    {"Detached", "Detaching", "Attaching", "AttachedWeak", "AttachedGood",
     "AttachedStrong", "FullyAttached", "OverAttached"}

\* impl Default for ConnectionState
DefaultState ==
    [is_connected |-> FALSE, attachment_state |-> "Detached",
     network_started |-> FALSE, use_fallback_storage |-> FALSE,
     node_id |-> "None"]

\* HashMap::new()
EmptyMap == [k \in {} |-> None]

\* HashMap::get(..).cloned()
Lookup(m, k) == IF k \in DOMAIN m THEN m[k] ELSE None

\* HashMap::insert
Put(m, k, v) == [x \in (DOMAIN m) \cup {k} |-> IF x = k THEN v ELSE m[x]]

\* HashMap::remove
Remove(m, k) == [x \in (DOMAIN m) \ {k} |-> m[x]]

\* attach_with_retry: const MAX_RETRIES
MAX_RETRIES == 3

\* veilid_core::VeilidUpdate, as far as update_callback reads it
Updates ==
    {[kind |-> k] : k \in {"Log", "Config", "RouteChange", "ValueChange",
                           "AppMessage", "AppCall", "Shutdown"}}
    \cup {[kind |-> "Attachment", attachment |-> a] : a \in AttachmentStates}
    \cup {[kind |-> "Network", started |-> b] : b \in BOOLEAN}

\* AttachmentState::from_veilid_attachment
from_veilid_attachment(a) ==
    CASE a = "Detached" -> "Detached"
      [] a = "Detaching" -> "Detaching"
      [] a = "Attaching" -> "Attaching"
      [] a = "AttachedWeak" -> "AttachedWeak"
      [] a = "AttachedGood" -> "AttachedGood"
      [] a = "AttachedStrong" -> "AttachedStrong"
      [] a = "FullyAttached" -> "FullyAttached"
      [] a = "OverAttached" -> "OverAttached"

NoOp == [op |-> "none", result |-> "none", value |-> None]

\* what an operation leaves in "last": its name, its Result, the value in it
OpRecord(op, res, val) == [op |-> op, result |-> res, value |-> val]

NoAttach == [calls |-> 0, sleeps |-> 0, failures |-> 0, result |-> "none",
             lastOk |-> FALSE]

PubIdle == [pc |-> "idle"]

NoWatch == [on |-> FALSE]

-----------------------------------------------------------------------------
(* VeilidConnection *)

\* requests the gateway handles at the same time
NumRequests == 2

Requests == 1 .. NumRequests

\* a task of the gateway that handles no request
ReqIdle == [pc |-> "idle"]

\* init_veilid_api: the core has not called the closure
CbIdle ==
    /\ delivered = <<>>
    /\ spawned = {}

kvVars == <<expect, asked>>

uriVars == <<veil_uri, uri_str, parsed>>

\* no URI is being printed or parsed
UriIdle ==
    /\ veil_uri = None
    /\ uri_str = None
    /\ parsed = None

\* no dht_set, dht_get or dht_delete has been called
KvIdle ==
    /\ expect = EmptyMap
    /\ asked = None

\* no package is being built or loaded
PkgIdle ==
    /\ source_dir = <<>>
    /\ builder = None
    /\ built = None
    /\ file = None
    /\ loaded = None
    /\ downloaded = None
    /\ verified = None
    /\ tampered = None
    /\ extracted = None

\* main of the gateway before the first request: an empty AppCache, no
\* directory under cache_dir, the store unlocked
GwIdle ==
    /\ cache = EmptyMap
    /\ disk = EmptyMap
    /\ req = [r \in Requests |-> ReqIdle]
    /\ store_lock = 0
    /\ downloads = {}
    /\ deleted = FALSE
    /\ txt = EmptyMap

\* VeilidConnection::new_with_config
Init ==
    /\ api = "None"
    /\ state = DefaultState
    /\ storage = EmptyMap
    /\ routing_context = FALSE
    /\ table = EmptyMap
    /\ core = "stopped"
    /\ pc = "idle"
    /\ attempt = 0
    /\ attachLog = NoAttach
    /\ last = NoOp
    /\ pub = PubIdle
    /\ watch = NoWatch
    /\ npub = 0
    /\ CbIdle
    /\ GwIdle
    /\ PkgIdle
    /\ KvIdle
    /\ UriIdle

\* dht_set / dht_get / dht_delete: let use_fallback = ...
UseFallback(st, a) == st.use_fallback_storage \/ a = "None"

\* connect(): the first write of the state, then init_veilid_api is entered
ConnectBegin ==
    /\ pc = "idle"
    /\ pub.pc = "idle"
    /\ state' = [state EXCEPT !.attachment_state = "Attaching"]
    /\ pc' = "startup"
    /\ UNCHANGED <<api, storage, routing_context, table, core,
                   attempt, attachLog, last, pub, watch, npub,
                   cbVars, pkgVars, kvVars, uriVars, gwVars>>

\* init_veilid_api: veilid_core::api_startup_json succeeds or fails
ApiStartup ==
    /\ pc = "startup"
    /\ \/ /\ core' = "running"
          /\ pc' = "attach"
          /\ attempt' = 1
          /\ attachLog' = NoAttach
       \/ /\ pc' = "fallback"
          /\ UNCHANGED <<core, attempt, attachLog, npub>>
    /\ UNCHANGED <<api, state, storage, routing_context, table,
                   last, pub, watch, npub,
                   cbVars, pkgVars, kvVars, uriVars, gwVars>>

\* AttachStep with the retry test off by one
AttachStepOffByOne(att, ok) ==
    IF ok THEN "return"
    ELSE IF att <= MAX_RETRIES THEN "sleep" ELSE "fail"

\* attach_with_retry: what the loop does after api.attach() of this attempt
\* returned ok: "return" (Ok), "sleep" (retry after the delay) or "fail"
AttachStep(att, ok) ==
    IF ok THEN "return"
    ELSE IF att < MAX_RETRIES THEN "sleep" ELSE "fail"

\* attach_with_retry: one iteration of the loop up to its return or its sleep
Attach ==
    /\ pc = "attach"
    /\ \E ok \in BOOLEAN :
         LET step == AttachStep(attempt, ok)
             log == [attachLog EXCEPT !.calls = @ + 1,
                                      !.failures = IF ok THEN @ ELSE @ + 1,
                                      !.lastOk = ok]
         IN  /\ attachLog' =
                   [log EXCEPT !.result =
                       CASE step = "return" -> "Ok"
                         [] step = "fail" -> "ConnectionFailed"
                         [] OTHER -> "none"]
             /\ pc' = CASE step = "return" -> "attached"
                        [] step = "fail" -> "fallback"
                        [] OTHER -> "sleep"
             \* on failure the VeilidAPI of init_veilid_api is dropped
             /\ core' = IF step = "fail" THEN "draining" ELSE core
    /\ UNCHANGED <<api, state, storage, routing_context, table,
                   attempt, last, pub, watch, npub,
                   cbVars, pkgVars, kvVars, uriVars, gwVars>>

\* attach_with_retry: tokio::time::sleep(RETRY_DELAY), then the next attempt
Sleep ==
    /\ pc = "sleep"
    /\ attempt' = attempt + 1
    /\ attachLog' = [attachLog EXCEPT !.sleeps = @ + 1]
    /\ pc' = "attach"
    /\ UNCHANGED <<api, state, storage, routing_context, table, core,
                   last, pub, watch, npub,
                   cbVars, pkgVars, kvVars, uriVars, gwVars>>

\* connect(): the Ok(api) arm; get_node_id succeeds or fails
ConnectOk ==
    /\ pc = "attached"
    /\ api' = "Some"
    /\ \E rc \in BOOLEAN : routing_context' = (rc \/ routing_context)
    /\ \/ /\ state' = [state EXCEPT !.is_connected = TRUE,
                                    !.network_started = TRUE,
                                    !.node_id = "node"]
          /\ last' = OpRecord("connect", "Ok", None)
       \/ /\ state' = state
          /\ last' = OpRecord("connect", "DhtOperationFailed", None)
    /\ pc' = "idle"
    /\ attempt' = 0
    /\ attachLog' = NoAttach
    /\ UNCHANGED <<storage, table, core, pub, watch, npub,
                   cbVars, pkgVars, kvVars, uriVars, gwVars>>

\* FallbackState without the switch to the fallback storage
FallbackStateNoSwitch(st) ==
    [st EXCEPT !.is_connected = TRUE, !.attachment_state = "Detached"]

\* connect(): what the Err(e) arm makes of the state
FallbackState(st) ==
    [st EXCEPT !.use_fallback_storage = TRUE,
               !.is_connected = TRUE,
               !.attachment_state = "Detached"]

\* connect(): the Err(e) arm, then Ok(())
ConnectFallback ==
    /\ pc = "fallback"
    /\ state' = FallbackState(state)
    /\ last' = OpRecord("connect", "Ok", None)
    /\ pc' = "idle"
    /\ attempt' = 0
    /\ attachLog' = NoAttach
    /\ UNCHANGED <<api, storage, routing_context, table, core,
                   pub, watch, npub,
                   cbVars, pkgVars, kvVars, uriVars, gwVars>>

\* StateAfterDisconnect clearing the connected flag only
StateAfterDisconnectFlagOnly(st) == [st EXCEPT !.is_connected = FALSE]

\* disconnect(): what "*state = ConnectionState::default()" leaves
StateAfterDisconnect(st) == DefaultState

\* disconnect(): self.api.take(); with an api, detach and shutdown are awaited
DisconnectBegin ==
    /\ pc = "idle"
    /\ pub.pc = "idle"
    /\ pc' = IF api = "Some" THEN "shutdown" ELSE "cleanup"
    /\ api' = "None"
    /\ watch' = NoWatch
    /\ UNCHANGED <<state, storage, routing_context, table, core,
                   attempt, attachLog, last, pub, npub,
                   cbVars, pkgVars, kvVars, uriVars, gwVars>>

\* disconnect(): the routing context, the storage and the state are reset
DisconnectFinish ==
    /\ pc \in {"shutdown", "cleanup"}
    /\ core' = IF pc = "shutdown" THEN "draining" ELSE core
    /\ routing_context' = FALSE
    /\ storage' = EmptyMap
    /\ state' = StateAfterDisconnect(state)
    /\ last' = OpRecord("disconnect", "Ok", None)
    /\ pc' = "idle"
    /\ UNCHANGED <<api, table, attempt, attachLog, pub, watch, npub,
                   cbVars, pkgVars, kvVars, uriVars, gwVars>>

\* is_connected()
is_connected == state.is_connected

\* dht_set / dht_get / dht_delete: use_fallback of the connection as it is
Fallback == UseFallback(state, api)

\* the map a DHT operation of the connection works on
Dht == IF Fallback THEN storage ELSE table

\* WriteOutcomes refusing the call while the node is detached
WriteOutcomesGated(st, a) ==
    IF st.attachment_state \in {"Detached", "Detaching"}
    THEN {"ConnectionFailed"}
    ELSE IF UseFallback(st, a) THEN {"Ok"} ELSE {"Ok", "DhtOperationFailed"}

\* dht_set, dht_delete: how the call can end. On the fallback storage it
\* returns Ok; on the table store each of table_store(), open() and
\* store()/delete() can fail with DhtOperationFailed
WriteOutcomes(st, a) ==
    IF UseFallback(st, a) THEN {"Ok"} ELSE {"Ok", "DhtOperationFailed"}

\* dht_get: how the call can end. On the table store a failed open() gives
\* Ok(None), a failed table_store() or load() gives DhtOperationFailed
ReadOutcomes(st, a) ==
    IF UseFallback(st, a) THEN {"Ok"}
    ELSE {"Ok", "OpenFailed", "DhtOperationFailed"}

\* dht_get: the Result returned under outcome o
ReadResult(m, k, o) ==
    [result |-> IF o = "DhtOperationFailed" THEN o ELSE "Ok",
     value |-> IF o = "Ok" THEN Lookup(m, k) ELSE None]

\* dht_set: the maps after the call under outcome o
StorageAfterSet(k, v, o) ==
    IF Fallback /\ o = "Ok" THEN Put(storage, k, v) ELSE storage

TableAfterSet(k, v, o) ==
    IF ~Fallback /\ o = "Ok" THEN Put(table, k, v) ELSE table

\* keys and values of the direct DHT calls
ConnKeys == {"k1"}

ConnValues ==
    {[kind |-> "raw", bytes |-> "v1"], [kind |-> "raw", bytes |-> "v2"]}

\* dht_set(key, value)
DhtSet(k, v) ==
    /\ pc = "idle"
    /\ pub.pc = "idle"
    /\ \E o \in WriteOutcomes(state, api) :
         /\ storage' = StorageAfterSet(k, v, o)
         /\ table' = TableAfterSet(k, v, o)
         /\ last' = OpRecord("dht_set", o, None)
    /\ UNCHANGED <<api, state, routing_context, core, pc, attempt,
                   attachLog, pub, watch, npub,
                   cbVars, pkgVars, gwVars>>

\* dht_get(key)
DhtGet(k) ==
    /\ pc = "idle"
    /\ pub.pc = "idle"
    /\ \E o \in ReadOutcomes(state, api) :
         LET r == ReadResult(Dht, k, o)
         IN  last' = OpRecord("dht_get", r.result, r.value)
    /\ UNCHANGED <<api, state, storage, routing_context, table, core,
                   pc, attempt, attachLog, pub, watch, npub,
                   cbVars, pkgVars, gwVars>>

\* dht_delete(key)
DhtDelete(k) ==
    /\ pc = "idle"
    /\ pub.pc = "idle"
    /\ \E o \in WriteOutcomes(state, api) :
         /\ storage' = IF Fallback /\ o = "Ok" THEN Remove(storage, k)
                       ELSE storage
         /\ table' = IF ~Fallback /\ o = "Ok" THEN Remove(table, k)
                     ELSE table
         /\ last' = OpRecord("dht_delete", o, None)
    /\ UNCHANGED <<api, state, routing_context, core, pc, attempt,
                   attachLog, pub, watch, npub,
                   cbVars, pkgVars, gwVars>>

\* update_callback whose Shutdown arm resets the whole state
update_callback_reset(u, st) ==
    CASE u.kind = "Attachment" ->
           [st EXCEPT !.attachment_state = from_veilid_attachment(u.attachment)]
      [] u.kind = "Network" ->
           [st EXCEPT !.network_started = u.started]
      [] u.kind = "Shutdown" -> DefaultState
      [] OTHER -> st

\* update_callback(update, state): the state it leaves
update_callback(u, st) ==
    CASE u.kind = "Attachment" ->
           [st EXCEPT !.attachment_state = from_veilid_attachment(u.attachment)]
      [] u.kind = "Network" ->
           [st EXCEPT !.network_started = u.started]
      [] u.kind = "Shutdown" ->
           [st EXCEPT !.is_connected = FALSE,
                      !.network_started = FALSE,
                      !.attachment_state = "Detached"]
      [] OTHER -> st

\* init_veilid_api: the closure given to api_startup_json spawns a task per
\* update; the task runs update_callback at any later time, in any order
RunCallback(u) ==
    /\ core \in {"running", "draining"}
    /\ state' = update_callback(u, state)
    /\ UNCHANGED <<api, storage, routing_context, table, core, pc, attempt,
                   attachLog, last, pub, watch, npub,
                   cbVars, pkgVars, kvVars, uriVars, gwVars>>

\* the last task spawned for a core that no longer runs has finished
CallbacksDrained ==
    /\ core = "draining"
    /\ core' = "stopped"
    /\ UNCHANGED <<api, state, storage, routing_context, table, pc, attempt,
                   attachLog, last, pub, watch, npub,
                   cbVars, pkgVars, kvVars, uriVars, gwVars>>

NextConn ==
    \/ ConnectBegin
    \/ ApiStartup
    \/ Attach
    \/ Sleep
    \/ ConnectOk
    \/ ConnectFallback
    \/ DisconnectBegin
    \/ DisconnectFinish
    \/ \E k \in ConnKeys, v \in ConnValues :
          DhtSet(k, v) /\ UNCHANGED <<kvVars, uriVars>>
    \/ \E k \in ConnKeys : DhtGet(k) /\ UNCHANGED <<kvVars, uriVars>>
    \/ \E k \in ConnKeys : DhtDelete(k) /\ UNCHANGED <<kvVars, uriVars>>
    \/ \E u \in Updates : RunCallback(u)
    \/ CallbacksDrained

SpecConn == Init /\ [][NextConn]_vars

-----------------------------------------------------------------------------
(* Package, AppInfo and the keys of the store *)

RECURSIVE Str(_)
\* the String made of a sequence of chars
Str(cs) == IF cs = <<>> THEN "" ELSE Head(cs) \o Str(Tail(cs))

\* char::to_lowercase, for the chars of the names of Packages
Lower(c) ==
    CASE c = "A" -> "a"
      [] c = "B" -> "b"
      [] OTHER -> c

\* char::is_alphanumeric, for the chars of the names of Packages
IsAlphanumeric(c) == c \in {"a", "b", "A", "B", "1", "2"}

\* generate_slug: c.is_whitespace() || c == '-' || c == '_'
IsSeparator(c) == c \in {" ", "-", "_"}

RECURSIVE FilterMapSlug(_)
\* generate_slug: to_lowercase().chars().filter_map(..)
FilterMapSlug(cs) ==
    IF cs = <<>> THEN <<>>
    ELSE LET c == Lower(Head(cs))
             rest == FilterMapSlug(Tail(cs))
         IN  IF IsAlphanumeric(c) THEN <<c>> \o rest
             ELSE IF IsSeparator(c) THEN <<"-">> \o rest
             ELSE rest

RECURSIVE TrimStart(_)
TrimStart(cs) ==
    IF cs # <<>> /\ Head(cs) = "-" THEN TrimStart(Tail(cs)) ELSE cs

RECURSIVE TrimEnd(_)
TrimEnd(cs) ==
    IF cs # <<>> /\ cs[Len(cs)] = "-"
    THEN TrimEnd(SubSeq(cs, 1, Len(cs) - 1)) ELSE cs

\* Package::generate_slug(name)
generate_slug(name) == Str(TrimEnd(TrimStart(FilterMapSlug(name))))

\* a Package as Package::from_file returns it: the name as chars, the
\* content as len bytes of value byte
MkPackage(name, slug, version, content) ==
    [manifest |-> [name |-> Str(name), slug |-> slug, version |-> version],
     chars |-> name,
     content |-> content,
     size_bytes |-> content.len,
     data |-> [byte |-> 0, len |-> 0]]

\* the packages given to publish
Packages ==
    { MkPackage(<<"A">>, "", "1", [byte |-> 7, len |-> 3]),
      MkPackage(<<"a">>, "", "1", [byte |-> 200, len |-> 8001]),
      MkPackage(<<"A">>, "", "2", [byte |-> 200, len |-> 8001]),
      MkPackage(<<"b", " ">>, "b", "1", [byte |-> 7, len |-> 3]) }

\* app_key without the version
app_key_slug_only(slug, version) == "roselite:app:" \o slug

\* VeilidStore::app_key
app_key(slug, version) == "roselite:app:" \o slug \o ":" \o version

\* VeilidStore::metadata_key
metadata_key(slug) == "roselite:metadata:" \o slug

\* VeilidStore::slug_mapping_key
slug_mapping_key == "roselite:slug_mapping"

\* VeilidStore::name_mapping_key
name_mapping_key == "roselite:name_mapping"

\* VeilidStore::index_key
index_key == "roselite:index"

\* publish: the slug of the package
SlugOf(p) ==
    IF p.manifest.slug = "" THEN generate_slug(p.chars) ELSE p.manifest.slug

\* publish: let app_info = AppInfo { .. }
AppInfoOf(p) ==
    [id |-> SlugOf(p),
     name |-> p.manifest.name,
     slug |-> SlugOf(p),
     version |-> p.manifest.version,
     size_bytes |-> p.size_bytes]

\* VeilUri::new(AppId(slug), Some(version))
VeilUri(app_id, version) == [app_id |-> app_id, version |-> version]

\* Option<String>::None of VeilUri.version
NoVersion == "None"

\* serde_json::to_vec(&package) truncated to its first 8,000 content bytes
SerializeChunk(kind, body) ==
    IF kind = "package"
    THEN [kind |-> kind,
          body |-> [body EXCEPT !.content.len =
                       IF @ > 8000 THEN 8000 ELSE @]]
    ELSE [kind |-> kind, body |-> body]

\* serde_json::to_vec: the bytes of a value of type kind
Serialize(kind, body) == [kind |-> kind, body |-> body]

\* Deserialize giving a package back without its content
DeserializeNoContent(kind, data) ==
    IF data.kind # kind THEN [ok |-> FALSE, body |-> None]
    ELSE IF kind = "package"
    THEN [ok |-> TRUE,
          body |-> [data.body EXCEPT !.content = [byte |-> 0, len |-> 0]]]
    ELSE [ok |-> TRUE, body |-> data.body]

\* serde_json::from_slice::<T>: fails on the bytes of another type
Deserialize(kind, data) ==
    IF data.kind = kind THEN [ok |-> TRUE, body |-> data.body]
    ELSE [ok |-> FALSE, body |-> None]

\* decimal digits of a byte
Digits(b) == IF b < 10 THEN 1 ELSE IF b < 100 THEN 2 ELSE 3

\* serde_json of a Vec<u8>: "[b,b,..,b]"
ByteArrayJsonLen(c) ==
    IF c.len = 0 THEN 2 ELSE c.len * Digits(c.byte) + (c.len - 1) + 2

\* length of the "content" and "data" arrays in the bytes of a package
PackageArraysLen(data) ==
    ByteArrayJsonLen(data.body.content) + ByteArrayJsonLen(data.body.data)

\* from_slice(..).unwrap_or_default() of a HashMap<String, String>
MapOrDefault(v) ==
    IF v = None THEN EmptyMap
    ELSE LET d == Deserialize("string_map", v)
         IN  IF d.ok THEN d.body ELSE EmptyMap

-----------------------------------------------------------------------------
(* VeilidStore: the read operations. Each gives the set of Results the call
   can return on the map d when every dht_get of it ends in one of outs;
   "clean" tells that every dht_get of the call ended "Ok" *)

Some(x) == [kind |-> "some", v |-> x]

Res(tag, val, clean) == [result |-> tag, value |-> val, clean |-> clean]

\* self.veilid.dht_get(key).await as the store sees it
Gets(d, k, outs) ==
    { [res |-> ReadResult(d, k, o), f |-> (o # "Ok")] : o \in outs }

\* get_app_index
get_app_index(d, outs) ==
    { IF g.res.result # "Ok" THEN Res("DhtOperationFailed", None, FALSE)
      ELSE IF g.res.value = None THEN Res("Ok", Some(EmptyMap), ~g.f)
      ELSE LET x == Deserialize("index", g.res.value)
           IN  IF x.ok THEN Res("Ok", Some(x.body), ~g.f)
               ELSE Res("SerializationError", None, ~g.f)
      : g \in Gets(d, index_key, outs) }

\* resolve_to_slug: the scan of the index for an entry with this id
ResolveInIndex(d, outs, identifier, clean) ==
    UNION {
      IF ix.result # "Ok" THEN {Res(ix.result, None, FALSE)}
      ELSE LET idx == ix.value.v
               hits == {k \in DOMAIN idx : idx[k].id = identifier}
           IN  IF hits = {} THEN {Res("Ok", None, clean /\ ix.clean)}
               ELSE {Res("Ok", Some(idx[k].slug), clean /\ ix.clean) : k \in hits}
      : ix \in get_app_index(d, outs) }

\* resolve_to_slug(identifier)
resolve_to_slug(d, outs, identifier) ==
    UNION {
      IF g1.res.result # "Ok" THEN {Res("DhtOperationFailed", None, FALSE)}
      ELSE IF identifier \in DOMAIN MapOrDefault(g1.res.value)
      THEN {Res("Ok", Some(identifier), ~g1.f)}
      ELSE UNION {
        IF g2.res.result # "Ok" THEN {Res("DhtOperationFailed", None, FALSE)}
        ELSE LET nm == MapOrDefault(g2.res.value)
             IN  IF identifier \in DOMAIN nm
                 THEN {Res("Ok", Some(nm[identifier]), ~g1.f /\ ~g2.f)}
                 ELSE ResolveInIndex(d, outs, identifier, ~g1.f /\ ~g2.f)
        : g2 \in Gets(d, name_mapping_key, outs) }
      : g1 \in Gets(d, slug_mapping_key, outs) }

\* get_app(app_id)
get_app(d, outs, app_id) ==
    UNION {
      IF rs.result # "Ok" THEN {rs}
      ELSE IF rs.value = None THEN {Res("Ok", None, rs.clean)}
      ELSE {
        IF g.res.result # "Ok" THEN Res("DhtOperationFailed", None, FALSE)
        ELSE IF g.res.value = None THEN Res("Ok", None, rs.clean /\ ~g.f)
        ELSE LET x == Deserialize("app_info", g.res.value)
             IN  IF x.ok THEN Res("Ok", Some(x.body), rs.clean /\ ~g.f)
                 ELSE Res("SerializationError", None, rs.clean /\ ~g.f)
        : g \in Gets(d, metadata_key(rs.value.v), outs) }
      : rs \in resolve_to_slug(d, outs, app_id) }

\* get_latest_version(app_id)
get_latest_version(d, outs, app_id) ==
    { IF a.result = "Ok" /\ a.value # None
      THEN Res("Ok", Some(a.value.v.version), a.clean)
      ELSE a
      : a \in get_app(d, outs, app_id) }

\* DownloadData giving an empty package where there is no data
DownloadDataDefault(d, outs, package_key, clean) ==
    { IF g.res.result # "Ok" THEN Res("DhtOperationFailed", None, FALSE)
      ELSE IF g.res.value = None
      THEN Res("Ok", Some(MkPackage(<<>>, "", "", [byte |-> 0, len |-> 0])),
               clean /\ ~g.f)
      ELSE LET x == Deserialize("package", g.res.value)
           IN  IF x.ok THEN Res("Ok", Some(x.body), clean /\ ~g.f)
               ELSE Res("SerializationError", None, clean /\ ~g.f)
      : g \in Gets(d, package_key, outs) }

\* download: the read of the package data under package_key
DownloadData(d, outs, package_key, clean) ==
    { IF g.res.result # "Ok" THEN Res("DhtOperationFailed", None, FALSE)
      ELSE IF g.res.value = None THEN Res("AppNotFound", None, clean /\ ~g.f)
      ELSE LET x == Deserialize("package", g.res.value)
           IN  IF x.ok THEN Res("Ok", Some(x.body), clean /\ ~g.f)
               ELSE Res("SerializationError", None, clean /\ ~g.f)
      : g \in Gets(d, package_key, outs) }

\* download(uri)
download(d, outs, uri) ==
    UNION {
      IF rs.result # "Ok" THEN {rs}
      ELSE IF rs.value = None THEN {Res("AppNotFound", None, rs.clean)}
      ELSE LET slug == rs.value.v
           IN  IF uri.version # NoVersion
               THEN DownloadData(d, outs, app_key(slug, uri.version), rs.clean)
               ELSE UNION {
                 IF lv.result # "Ok" THEN {lv}
                 ELSE IF lv.value = None
                 THEN {Res("AppNotFound", None, rs.clean /\ lv.clean)}
                 ELSE DownloadData(d, outs, app_key(slug, lv.value.v),
                                   rs.clean /\ lv.clean)
                 : lv \in get_latest_version(d, outs, slug) }
      : rs \in resolve_to_slug(d, outs, uri.app_id) }

\* search(filter) with the default filter: every entry of the index
search(d, outs) ==
    { IF ix.result # "Ok" THEN ix
      ELSE Res("Ok", Some({ix.value.v[k] : k \in DOMAIN ix.value.v}), ix.clean)
      : ix \in get_app_index(d, outs) }

-----------------------------------------------------------------------------
(* VeilidStore: publish, step by step, and the operations of the store.
   publish takes &mut self, so no other call of the store runs inside it *)

\* publish calls begun in one run of the store, at most
MaxPublishes == 2

\* what a call of the store has returned
StoreRecord(op, r) ==
    [op |-> op, result |-> r.result, value |-> r.value, clean |-> r.clean]

\* publish: a `?` returns the error
PubAbort(result) ==
    /\ pub' = PubIdle
    /\ last' = StoreRecord("publish", Res(result, None, FALSE))

\* the package key the followed URI names
WatchKey == app_key(watch.uri.app_id, watch.uri.version)

\* the followed publish after publish has stored, under outcome o, the data
\* of a package with this slug and version
WatchAfterSet(slug, version, o) ==
    IF watch.on /\ o = "Ok" /\ watch.uri = VeilUri(slug, version)
    THEN [watch EXCEPT !.intact = FALSE]
    ELSE watch

\* publish: self.veilid.dht_set(&package_key, &package_data).await?
PublishPackage(p) ==
    /\ pc = "idle"
    /\ pub.pc = "idle"
    /\ npub < MaxPublishes
    /\ npub' = npub + 1
    /\ LET slug == SlugOf(p)
           app_info == AppInfoOf(p)
           package_data == Serialize("package", p)
           package_key == app_key(slug, app_info.version)
       IN  \E o \in WriteOutcomes(state, api) :
             /\ storage' = StorageAfterSet(package_key, package_data, o)
             /\ table' = TableAfterSet(package_key, package_data, o)
             /\ watch' = WatchAfterSet(slug, app_info.version, o)
             /\ IF o = "Ok"
                THEN /\ pub' = [pc |-> "metadata", package |-> p,
                                slug |-> slug, app_info |-> app_info,
                                before |-> Dht]
                     /\ last' = last
                ELSE PubAbort(o)
    /\ UNCHANGED <<api, state, routing_context, core, pc, attempt, attachLog,
                   cbVars, pkgVars, kvVars, uriVars, gwVars>>

\* publish: self.veilid.dht_set(&metadata_key, &app_data).await?
PublishMetadata ==
    /\ pub.pc = "metadata"
    /\ \E o \in WriteOutcomes(state, api) :
         LET app_data == Serialize("app_info", pub.app_info)
         IN  /\ storage' = StorageAfterSet(metadata_key(pub.slug), app_data, o)
             /\ table' = TableAfterSet(metadata_key(pub.slug), app_data, o)
             /\ IF o = "Ok"
                THEN pub' = [pub EXCEPT !.pc = "read_index"] /\ last' = last
                ELSE PubAbort(o)
    /\ UNCHANGED <<api, state, routing_context, core, pc, attempt,
                   attachLog, watch, npub,
                   cbVars, pkgVars, kvVars, uriVars, gwVars>>

\* add_to_index: the three dht_get with their inserts, up to the first dht_set
PublishReadIndex ==
    /\ pub.pc = "read_index"
    /\ LET outs == ReadOutcomes(state, api)
           info == pub.app_info
       IN  \E ix \in get_app_index(Dht, outs) :
             IF ix.result # "Ok" THEN PubAbort(ix.result)
             ELSE \E g1 \in Gets(Dht, slug_mapping_key, outs) :
               IF g1.res.result # "Ok" THEN PubAbort(g1.res.result)
               ELSE \E g2 \in Gets(Dht, name_mapping_key, outs) :
                 IF g2.res.result # "Ok" THEN PubAbort(g2.res.result)
                 ELSE
                   /\ pub' =
                        [pc |-> "index", package |-> pub.package,
                         slug |-> pub.slug, app_info |-> info,
                         before |-> pub.before,
                         app_index |-> Put(ix.value.v, info.slug, info),
                         slug_mapping |-> Put(MapOrDefault(g1.res.value),
                                              info.slug, info.name),
                         name_mapping |-> Put(MapOrDefault(g2.res.value),
                                              info.name, info.slug)]
                   /\ last' = last
    /\ UNCHANGED <<api, state, storage, routing_context, table, core, pc,
                   attempt, attachLog, watch, npub,
                   cbVars, pkgVars, kvVars, uriVars, gwVars>>

\* add_to_index: self.veilid.dht_set(&index_key, &serialized_index).await?
PublishIndex ==
    /\ pub.pc = "index"
    /\ \E o \in WriteOutcomes(state, api) :
         LET serialized_index == Serialize("index", pub.app_index)
         IN  /\ storage' = StorageAfterSet(index_key, serialized_index, o)
             /\ table' = TableAfterSet(index_key, serialized_index, o)
             /\ IF o = "Ok"
                THEN pub' = [pub EXCEPT !.pc = "slug_mapping"] /\ last' = last
                ELSE PubAbort(o)
    /\ UNCHANGED <<api, state, routing_context, core, pc, attempt,
                   attachLog, watch, npub,
                   cbVars, pkgVars, kvVars, uriVars, gwVars>>

\* add_to_index: self.veilid.dht_set(&Self::slug_mapping_key(), ..).await?
PublishSlugMapping ==
    /\ pub.pc = "slug_mapping"
    /\ \E o \in WriteOutcomes(state, api) :
         LET v == Serialize("string_map", pub.slug_mapping)
         IN  /\ storage' = StorageAfterSet(slug_mapping_key, v, o)
             /\ table' = TableAfterSet(slug_mapping_key, v, o)
             /\ IF o = "Ok"
                THEN pub' = [pub EXCEPT !.pc = "name_mapping"] /\ last' = last
                ELSE PubAbort(o)
    /\ UNCHANGED <<api, state, routing_context, core, pc, attempt,
                   attachLog, watch, npub,
                   cbVars, pkgVars, kvVars, uriVars, gwVars>>

\* add_to_index: self.veilid.dht_set(&Self::name_mapping_key(), ..).await?,
\* then publish returns Ok(VeilUri::new(AppId(slug), Some(app_info.version)))
PublishNameMapping ==
    /\ pub.pc = "name_mapping"
    /\ \E o \in WriteOutcomes(state, api) :
         LET v == Serialize("string_map", pub.name_mapping)
             uri == VeilUri(pub.slug, pub.app_info.version)
         IN  /\ storage' = StorageAfterSet(name_mapping_key, v, o)
             /\ table' = TableAfterSet(name_mapping_key, v, o)
             /\ IF o = "Ok"
                THEN /\ pub' = PubIdle
                     /\ last' = StoreRecord("publish",
                           Res("Ok", Some([uri |-> uri,
                                           package |-> pub.package]), TRUE))
                     /\ watch' \in
                          IF watch.on THEN {watch}
                          ELSE {watch,
                                [on |-> TRUE, uri |-> uri,
                                 package |-> pub.package, intact |-> TRUE,
                                 n |-> npub]}
                ELSE PubAbort(o) /\ watch' = watch
    /\ UNCHANGED <<api, state, routing_context, core, pc, attempt, attachLog, npub,
                   cbVars, pkgVars, kvVars, uriVars, gwVars>>

\* the future of publish is dropped at one of its awaits
PublishCancel ==
    /\ pub.pc # "idle"
    /\ PubAbort("Cancelled")
    /\ UNCHANGED <<api, state, storage, routing_context, table, core, pc,
                   attempt, attachLog, watch, npub,
                   cbVars, pkgVars, kvVars, uriVars, gwVars>>

\* the identifiers given to get_app and download: slugs and a name
Ids == {"a", "b", "A"}

\* the URIs given to download
Uris == {VeilUri(id, v) : id \in Ids, v \in {"1", "2", NoVersion}}

\* download(uri)
Download(uri) ==
    /\ pc = "idle"
    /\ pub.pc = "idle"
    /\ \E r \in download(Dht, ReadOutcomes(state, api), uri) :
         last' = StoreRecord("download", r)
    /\ UNCHANGED <<api, state, storage, routing_context, table, core, pc,
                   attempt, attachLog, pub, watch, npub,
                   cbVars, pkgVars, kvVars, uriVars, gwVars>>

\* get_app(app_id)
GetApp(app_id) ==
    /\ pc = "idle"
    /\ pub.pc = "idle"
    /\ \E r \in get_app(Dht, ReadOutcomes(state, api), app_id) :
         last' = StoreRecord("get_app", r)
    /\ UNCHANGED <<api, state, storage, routing_context, table, core, pc,
                   attempt, attachLog, pub, watch, npub,
                   cbVars, pkgVars, kvVars, uriVars, gwVars>>

\* search(&SearchFilter::default())
Search ==
    /\ pc = "idle"
    /\ pub.pc = "idle"
    /\ \E r \in search(Dht, ReadOutcomes(state, api)) :
         last' = StoreRecord("search", r)
    /\ UNCHANGED <<api, state, storage, routing_context, table, core, pc,
                   attempt, attachLog, pub, watch, npub,
                   cbVars, pkgVars, kvVars, uriVars, gwVars>>

\* VeilidStore::new(): VeilidConnection::new() and connect() have returned Ok,
\* on the fallback storage or with the API
StoreConnected ==
    \/ /\ api = "None"
       /\ state = FallbackState([DefaultState EXCEPT
                                   !.attachment_state = "Attaching"])
       /\ core = "stopped"
       /\ routing_context = FALSE
    \/ /\ api = "Some"
       /\ state = [DefaultState EXCEPT !.attachment_state = "Attaching",
                                       !.is_connected = TRUE,
                                       !.network_started = TRUE,
                                       !.node_id = "node"]
       /\ core = "running"
       /\ routing_context = TRUE

\* the state after VeilidStore::new(), nothing published
InitStore ==
    /\ StoreConnected
    /\ storage = EmptyMap
    /\ table = EmptyMap
    /\ pc = "idle"
    /\ attempt = 0
    /\ attachLog = NoAttach
    /\ last = OpRecord("connect", "Ok", None)
    /\ pub = PubIdle
    /\ watch = NoWatch
    /\ npub = 0
    /\ CbIdle
    /\ GwIdle
    /\ PkgIdle
    /\ KvIdle
    /\ UriIdle

NextStore ==
    \/ \E p \in Packages : PublishPackage(p)
    \/ PublishMetadata
    \/ PublishReadIndex
    \/ PublishIndex
    \/ PublishSlugMapping
    \/ PublishNameMapping
    \/ PublishCancel
    \/ \E uri \in Uris : Download(uri)
    \/ \E app_id \in Ids : GetApp(app_id)
    \/ Search
    \/ DisconnectBegin
    \/ DisconnectFinish

Spec == InitStore /\ [][NextStore]_vars

-----------------------------------------------------------------------------
(* The update callbacks one by one: every call of the closure given to
   api_startup_json spawns a task, and every task runs update_callback *)

\* the updates the core delivers in SpecCb
CbUpdates ==
    {[kind |-> "Log"], [kind |-> "Shutdown"],
     [kind |-> "Attachment", attachment |-> "AttachedGood"],
     [kind |-> "Attachment", attachment |-> "Detaching"],
     [kind |-> "Network", started |-> FALSE]}

\* updates delivered in one run, at most
MaxUpdates == 3

\* the closure of init_veilid_api: tokio::spawn(async move { update_callback })
DeliverUpdate(u) ==
    /\ core = "running"
    /\ Len(delivered) < MaxUpdates
    /\ delivered' = Append(delivered, u)
    /\ spawned' = spawned \cup {Len(delivered) + 1}
    /\ UNCHANGED <<api, state, storage, routing_context, table, core, pc,
                   attempt, attachLog, last, pub, watch, npub, gwVars, pkgVars, kvVars, uriVars>>

\* a spawned task runs: update_callback applies its update, the arms that
\* write the state doing so under state.write()
RunTask(i) ==
    /\ i \in spawned
    /\ state' = update_callback(delivered[i], state)
    /\ spawned' = spawned \ {i}
    /\ UNCHANGED <<api, storage, routing_context, table, core, pc, attempt,
                   attachLog, last, pub, watch, npub, delivered, gwVars, pkgVars, kvVars, uriVars>>

\* connect() has returned Ok with the API
InitCb == InitStore /\ api = "Some"

NextCb ==
    \/ \E u \in CbUpdates : DeliverUpdate(u)
    \/ \E i \in 1 .. MaxUpdates : RunTask(i)

SpecCb == InitCb /\ [][NextCb]_vars

-----------------------------------------------------------------------------
(* The gateway (roselite-gateway/src/main.rs): its pure functions.  A host
   name is the sequence of its labels and separators; a requested path is
   the sequence of its components, "" for the empty one before a leading
   '/'; a directory of cache_dir is named by its domain *)

RECURSIVE BeforeColon(_)
\* str::split(':').next(): what precedes the first ':'
BeforeColon(h) ==
    IF h = <<>> \/ Head(h) = ":" THEN <<>>
    ELSE <<Head(h)>> \o BeforeColon(Tail(h))

\* extract_domain_from_hostname(hostname, domain)
extract_domain_from_hostname(hostname, domain) ==
    LET hostname_no_port == BeforeColon(hostname)
        domain_no_port == BeforeColon(domain)
    IN  IF hostname_no_port = domain_no_port THEN None
        ELSE Some(Str(hostname_no_port))

\* AppState.domain: args.domain, "localhost:8080" by default
GatewayDomain == <<"localhost", ":", "8080">>

\* the Host headers of the requests
Hostnames ==
    { <<"my-app", ".", "localhost", ":", "8080">>,
      <<"sub", ".", "my-app", ".", "localhost", ":", "8080">>,
      <<"invalid", ".", "com">>,
      <<"localhost", ":", "8080">> }

\* the DNS: the TXT data of a domain, each text as the pair of what
\* strip_prefix("veilid-app=") tests and what it leaves
TxtRecords(domain) ==
    CASE domain = "my-app.localhost" ->
           <<[prefix |-> "v=spf1 ", rest |-> "-all"],
             [prefix |-> "veilid-app=", rest |-> "a"]>>
      [] domain = "sub.my-app.localhost" ->
           <<[prefix |-> "veilid-app=", rest |-> "b"]>>
      [] domain = "invalid.com" ->
           <<[prefix |-> "v=spf1 ", rest |-> "-all"]>>
      [] OTHER -> <<>>

\* the TXT data the resolver gives for a domain now
Txt(domain) == IF domain \in DOMAIN txt THEN txt[domain] ELSE TxtRecords(domain)

\* FirstVeilidApp taking the first text whatever its prefix
FirstTxt(txts) ==
    IF txts = <<>> THEN None ELSE Some(Head(txts).rest)

RECURSIVE FirstVeilidApp(_)
\* lookup_dht_key: the first text that strip_prefix("veilid-app=") accepts
FirstVeilidApp(txts) ==
    IF txts = <<>> THEN None
    ELSE IF Head(txts).prefix = "veilid-app=" THEN Some(Head(txts).rest)
    ELSE FirstVeilidApp(Tail(txts))

\* lookup_dht_key(domain) when txt_lookup answers (ok) or fails
lookup_dht_key(domain, ok) ==
    IF ok THEN FirstVeilidApp(Txt(domain)) ELSE None

\* tar::Archive::unpack of the content of a package: the files, in the
\* order of the archive
ArchiveFiles(content) ==
    IF content = [byte |-> 7, len |-> 3] THEN <<"index.html", "app.js">>
    ELSE <<"index.html">>

\* the set of the files of an archive
FileSet(files) == {files[i] : i \in 1 .. Len(files)}

\* the requested paths
Paths ==
    { <<>>,
      <<"app.js">>,
      <<"", "index.html">>,
      <<"missing.txt">>,
      <<"..", "sub.my-app.localhost", "index.html">> }

RECURSIVE TrimStartSlashes(_)
\* requested_path.trim_start_matches('/')
TrimStartSlashes(path) ==
    IF path # <<>> /\ Head(path) = "" THEN TrimStartSlashes(Tail(path))
    ELSE path

\* Path::starts_with: the components of base are the first ones of path
StartsWith(path, base) ==
    /\ Len(path) >= Len(base)
    /\ SubSeq(path, 1, Len(base)) = base

RECURSIVE Walk(_, _, _)
\* what the file system finds for a path under cache_dir: at is "root"
\* (cache_dir itself), a directory of d, a file, or "none"
Walk(d, at, path) ==
    IF path = <<>> \/ at.kind \in {"none", "file"}
    THEN IF path = <<>> THEN at ELSE [kind |-> "none"]
    ELSE LET c == Head(path)
             next ==
               IF at.kind = "root"
               THEN IF c \in DOMAIN d THEN [kind |-> "dir", dir |-> c]
                    ELSE [kind |-> "none"]
               ELSE IF c = ".." THEN [kind |-> "root"]
               ELSE IF c \in d[at.dir]
               THEN [kind |-> "file", dir |-> at.dir, file |-> c]
               ELSE [kind |-> "none"]
         IN  Walk(d, next, Tail(path))

\* a Response: its status and, for a file, where its contents came from
Response(status, body) == [status |-> status, body |-> body]

\* serve_static_file(base_path, requested_path) on the directories d
serve_static_file(d, base_path, requested_path) ==
    LET clean_path ==
          IF requested_path = <<>> \/ requested_path = <<"">>
          THEN <<"index.html">>
          ELSE TrimStartSlashes(requested_path)
        file_path == base_path \o clean_path
        found == Walk(d, [kind |-> "root"], file_path)
    IN  IF ~StartsWith(file_path, base_path)
        THEN Response(403, None)
        ELSE IF found.kind = "none" THEN Response(404, None)
        ELSE IF found.kind # "file" THEN Response(500, None)
        ELSE Response(200, Some([dir |-> found.dir, file |-> found.file]))

-----------------------------------------------------------------------------
(* The gateway: handle_request_internal step by step.  A step ends where the
   handler awaits or makes a call of the file system, so that the steps of
   requests handled at the same time interleave as the tasks do *)

\* the request r returns response resp; via tells where it was served
\* from, held which request had locked AppState.store at that moment
ReqDone(r, resp, path, via) ==
    [pc |-> "done", hostname |-> req[r].hostname, domain |-> req[r].domain,
     late |-> req[r].late, resp |-> resp, path |-> path, via |-> via,
     held |-> store_lock]

\* the store guard of a request that returns is dropped
Unlock(r) == IF store_lock = r THEN 0 ELSE store_lock

\* handle_request_internal: extract_domain_from_hostname, and for the root
\* domain handle_root_response; late records that the request arrived when
\* the AppCache already held an entry for its domain
ReqBegin(r, hostname) ==
    /\ req[r].pc \in {"idle", "done"}
    /\ LET target == extract_domain_from_hostname(hostname, GatewayDomain)
       IN  req' = [req EXCEPT ![r] =
                     IF target = None
                     THEN [pc |-> "done", hostname |-> hostname,
                           domain |-> None, late |-> FALSE,
                           resp |-> Response(200, None),
                           path |-> <<>>, via |-> "root",
                           held |-> store_lock]
                     ELSE [pc |-> "lookup", hostname |-> hostname,
                           domain |-> target,
                           late |-> target.v \in DOMAIN cache]]
    /\ UNCHANGED <<api, state, storage, routing_context, table, core, pc,
                   attempt, attachLog, last, pub, watch, npub, cbVars, pkgVars, kvVars, uriVars,
                   txt, cache, disk, store_lock, downloads, deleted>>

\* lookup_dht_key(&domain), and handle_domain_not_found when it gives None
ReqLookup(r) ==
    /\ req[r].pc = "lookup"
    /\ \E ok \in BOOLEAN :
         LET dht_key == lookup_dht_key(req[r].domain.v, ok)
         IN  req' = [req EXCEPT ![r] =
                       IF dht_key = None
                       THEN ReqDone(r, Response(404, None), <<>>, "no_txt")
                       ELSE [pc |-> "cache", hostname |-> req[r].hostname,
                             domain |-> req[r].domain, late |-> req[r].late,
                             dht_key |-> dht_key.v]]
    /\ UNCHANGED <<api, state, storage, routing_context, table, core, pc,
                   attempt, attachLog, last, pub, watch, npub, cbVars, pkgVars, kvVars, uriVars,
                   txt, cache, disk, store_lock, downloads, deleted>>

\* ReqCache looking into the AppCache only while AppState.store is unlocked
ReqCacheHeld(r) ==
    /\ req[r].pc = "cache"
    /\ store_lock = 0
    /\ LET domain == req[r].domain.v
       IN  IF domain \in DOMAIN cache
           THEN \E path \in Paths :
                  req' = [req EXCEPT ![r] =
                     ReqDone(r, serve_static_file(disk,
                                    cache[domain].extract_path, path),
                             path, "memory")]
           ELSE req' = [req EXCEPT ![r].pc = "dir"]
    /\ UNCHANGED <<api, state, storage, routing_context, table, core, pc,
                   attempt, attachLog, last, pub, watch, npub, cbVars, pkgVars, kvVars, uriVars,
                   txt, cache, disk, store_lock, downloads, deleted>>

\* ReqCache in which the lookup in the AppCache never finds an entry
ReqCacheAlwaysMiss(r) ==
    /\ req[r].pc = "cache"
    /\ req' = [req EXCEPT ![r].pc = "dir"]
    /\ UNCHANGED <<api, state, storage, routing_context, table, core, pc,
                   attempt, attachLog, last, pub, watch, npub, cbVars, pkgVars, kvVars, uriVars,
                   txt, cache, disk, store_lock, downloads, deleted>>

\* cache.read().await, cache_read.get(&domain): a hit is served from
\* cached_app.extract_path
ReqCache(r) ==
    /\ req[r].pc = "cache"
    /\ LET domain == req[r].domain.v
       IN  IF domain \in DOMAIN cache
           THEN \E path \in Paths :
                  req' = [req EXCEPT ![r] =
                     ReqDone(r, serve_static_file(disk,
                                    cache[domain].extract_path, path),
                             path, "memory")]
           ELSE req' = [req EXCEPT ![r].pc = "dir"]
    /\ UNCHANGED <<api, state, storage, routing_context, table, core, pc,
                   attempt, attachLog, last, pub, watch, npub, cbVars, pkgVars, kvVars, uriVars,
                   txt, cache, disk, store_lock, downloads, deleted>>

\* ReqDir in which the directory test never succeeds
ReqDirAlwaysDownload(r) ==
    /\ req[r].pc = "dir"
    /\ req' = [req EXCEPT ![r].pc = "lock"]
    /\ UNCHANGED <<api, state, storage, routing_context, table, core, pc,
                   attempt, attachLog, last, pub, watch, npub, cbVars, pkgVars, kvVars, uriVars,
                   txt, cache, disk, store_lock, downloads, deleted>>

\* extract_path.exists() && extract_path.is_dir(): the directory is served
ReqDir(r) ==
    /\ req[r].pc = "dir"
    /\ LET domain == req[r].domain.v
       IN  IF domain \in DOMAIN disk
           THEN \E path \in Paths :
                  req' = [req EXCEPT ![r] =
                     ReqDone(r, serve_static_file(disk, <<domain>>, path),
                             path, "disk")]
           ELSE req' = [req EXCEPT ![r].pc = "lock"]
    /\ UNCHANGED <<api, state, storage, routing_context, table, core, pc,
                   attempt, attachLog, last, pub, watch, npub, cbVars, pkgVars, kvVars, uriVars,
                   txt, cache, disk, store_lock, downloads, deleted>>

\* state.store.lock().await
ReqLock(r) ==
    /\ req[r].pc = "lock"
    /\ store_lock = 0
    /\ store_lock' = r
    /\ req' = [req EXCEPT ![r].pc = "download"]
    /\ UNCHANGED <<api, state, storage, routing_context, table, core, pc,
                   attempt, attachLog, last, pub, watch, npub, cbVars, pkgVars, kvVars, uriVars,
                   txt, cache, disk, downloads, deleted>>

\* store.download(&VeilUri::new(AppId(dht_key), None)).await; the Err arm
\* returns handle_domain_not_found
ReqDownload(r) ==
    /\ req[r].pc = "download"
    /\ downloads' = downloads \cup {req[r].domain.v}
    /\ \E res \in download(Dht, ReadOutcomes(state, api),
                           VeilUri(req[r].dht_key, NoVersion)) :
         IF res.result = "Ok"
         THEN /\ req' = [req EXCEPT ![r] =
                    [pc |-> "remove", hostname |-> req[r].hostname,
                     domain |-> req[r].domain, late |-> req[r].late,
                     dht_key |-> req[r].dht_key,
                     package |-> res.value.v, extracted |-> 0]]
              /\ store_lock' = store_lock
         ELSE /\ req' = [req EXCEPT ![r] =
                    ReqDone(r, Response(404, None), <<>>, "download_failed")]
              /\ store_lock' = Unlock(r)
    /\ UNCHANGED <<api, state, storage, routing_context, table, core, pc,
                   attempt, attachLog, last, pub, watch, npub, cbVars, pkgVars, kvVars, uriVars,
                   txt, cache, disk, deleted>>

\* extract_package_to_cache: remove_dir_all of an existing directory
ReqRemoveDir(r) ==
    /\ req[r].pc = "remove"
    /\ disk' = Remove(disk, req[r].domain.v)
    /\ req' = [req EXCEPT ![r].pc = "create"]
    /\ UNCHANGED <<api, state, storage, routing_context, table, core, pc,
                   attempt, attachLog, last, pub, watch, npub, cbVars, pkgVars, kvVars, uriVars,
                   txt, cache, store_lock, downloads, deleted>>

\* extract_package_to_cache: create_dir_all(extract_path)
ReqCreateDir(r) ==
    /\ req[r].pc = "create"
    /\ disk' = IF req[r].domain.v \in DOMAIN disk THEN disk
               ELSE Put(disk, req[r].domain.v, {})
    /\ req' = [req EXCEPT ![r].pc = "unpack"]
    /\ UNCHANGED <<api, state, storage, routing_context, table, core, pc,
                   attempt, attachLog, last, pub, watch, npub, cbVars, pkgVars, kvVars, uriVars,
                   txt, cache, store_lock, downloads, deleted>>

\* extract_package_to_cache: archive.unpack(extract_path) writes the next
\* file, or fails and the handler returns 500
ReqUnpack(r) ==
    /\ req[r].pc = "unpack"
    /\ LET domain == req[r].domain.v
           files == ArchiveFiles(req[r].package.content)
           n == req[r].extracted + 1
       IN  \/ /\ n <= Len(files)
              /\ domain \in DOMAIN disk
              /\ disk' = Put(disk, domain, disk[domain] \cup {files[n]})
              /\ req' = [req EXCEPT ![r].extracted = n,
                                    ![r].pc = IF n = Len(files) THEN "insert"
                                              ELSE "unpack"]
              /\ store_lock' = store_lock
           \/ /\ req' = [req EXCEPT ![r] =
                    ReqDone(r, Response(500, None), <<>>, "extract_failed")]
              /\ store_lock' = Unlock(r)
              /\ disk' = disk
    /\ UNCHANGED <<api, state, storage, routing_context, table, core, pc,
                   attempt, attachLog, last, pub, watch, npub, cbVars, pkgVars, kvVars, uriVars,
                   txt, cache, downloads, deleted>>

\* cache.write().await, cache_write.insert(domain, cached_app)
ReqInsert(r) ==
    /\ req[r].pc = "insert"
    /\ cache' = Put(cache, req[r].domain.v,
                    [package |-> req[r].package,
                     extract_path |-> <<req[r].domain.v>>])
    /\ req' = [req EXCEPT ![r].pc = "serve"]
    /\ UNCHANGED <<api, state, storage, routing_context, table, core, pc,
                   attempt, attachLog, last, pub, watch, npub, cbVars, pkgVars, kvVars, uriVars,
                   txt, disk, store_lock, downloads, deleted>>

\* serve_static_file(&extract_path, &path) of the request that downloaded
ReqServe(r) ==
    /\ req[r].pc = "serve"
    /\ \E path \in Paths :
         req' = [req EXCEPT ![r] =
            ReqDone(r, serve_static_file(disk, <<req[r].domain.v>>, path),
                    path, "download")]
    /\ store_lock' = Unlock(r)
    /\ UNCHANGED <<api, state, storage, routing_context, table, core, pc,
                   attempt, attachLog, last, pub, watch, npub, cbVars, pkgVars, kvVars, uriVars,
                   txt, cache, disk, downloads, deleted>>

\* somebody removes cache_dir/<domain> while the gateway runs
DeleteDir(domain) ==
    /\ domain \in DOMAIN disk
    /\ disk' = Remove(disk, domain)
    /\ deleted' = TRUE
    /\ UNCHANGED <<api, state, storage, routing_context, table, core, pc,
                   attempt, attachLog, last, pub, watch, npub, cbVars, pkgVars, kvVars, uriVars,
                   txt, cache, req, store_lock, downloads>>

\* the owner of a domain points its TXT record at another record id
ChangeTxt(domain, id) ==
    /\ txt = EmptyMap
    /\ FirstVeilidApp(Txt(domain)) \notin {None, Some(id)}
    /\ txt' = Put(txt, domain, <<[prefix |-> "veilid-app=", rest |-> id]>>)
    /\ UNCHANGED <<api, state, storage, routing_context, table, core, pc,
                   attempt, attachLog, last, pub, watch, npub, cbVars, pkgVars,
                   kvVars, uriVars,
                   cache, disk, req, store_lock, downloads, deleted>>

\* the table store after an earlier process (roselite publish) has
\* published p on the empty table
PublishedTable(p) ==
    LET slug == SlugOf(p)
        info == AppInfoOf(p)
        t1 == Put(EmptyMap, app_key(slug, info.version), Serialize("package", p))
        t2 == Put(t1, metadata_key(slug), Serialize("app_info", info))
        t3 == Put(t2, index_key,
                  Serialize("index", Put(EmptyMap, info.slug, info)))
        t4 == Put(t3, slug_mapping_key,
                  Serialize("string_map", Put(EmptyMap, info.slug, info.name)))
    IN  Put(t4, name_mapping_key,
            Serialize("string_map", Put(EmptyMap, info.name, info.slug)))

\* the package published for the gateway: name "A", slug "a", version "1"
GatewayPackage == MkPackage(<<"A">>, "", "1", [byte |-> 7, len |-> 3])

\* directories found under cache_dir when the gateway starts: left by an
\* earlier run, or put there by hand
InitialDisks ==
    { EmptyMap,
      Put(EmptyMap, "sub.my-app.localhost", {"index.html"}),
      Put(EmptyMap, "my-app.localhost", {"index.html", "app.js"}),
      Put(Put(EmptyMap, "sub.my-app.localhost", {"index.html"}),
          "my-app.localhost", {"index.html", "app.js"}) }

\* the domains whose TXT record is changed, and the record ids it is
\* changed to
ChangedDomains == {"my-app.localhost"}

ChangedIds == {"b"}

\* main of the gateway up to the first request: VeilidStore::new(), the
\* cache directory, an empty AppCache
InitGw ==
    /\ StoreConnected
    /\ storage = EmptyMap
    /\ table \in IF api = "Some"
                 THEN {EmptyMap, PublishedTable(GatewayPackage)}
                 ELSE {EmptyMap}
    /\ pc = "idle"
    /\ attempt = 0
    /\ attachLog = NoAttach
    /\ last = OpRecord("connect", "Ok", None)
    /\ pub = PubIdle
    /\ watch = NoWatch
    /\ npub = 0
    /\ CbIdle
    /\ PkgIdle
    /\ KvIdle
    /\ UriIdle
    /\ cache = EmptyMap
    /\ disk \in InitialDisks
    /\ req = [r \in Requests |-> ReqIdle]
    /\ store_lock = 0
    /\ downloads = {}
    /\ deleted = FALSE
    /\ txt = EmptyMap

NextGw ==
    \/ \E r \in Requests, hostname \in Hostnames : ReqBegin(r, hostname)
    \/ \E r \in Requests : ReqLookup(r)
    \/ \E domain \in ChangedDomains, id \in ChangedIds : ChangeTxt(domain, id)
    \/ \E r \in Requests : ReqCache(r)
    \/ \E r \in Requests : ReqDir(r)
    \/ \E r \in Requests : ReqLock(r)
    \/ \E r \in Requests : ReqDownload(r)
    \/ \E r \in Requests : ReqRemoveDir(r)
    \/ \E r \in Requests : ReqCreateDir(r)
    \/ \E r \in Requests : ReqUnpack(r)
    \/ \E r \in Requests : ReqInsert(r)
    \/ \E r \in Requests : ReqServe(r)
    \/ \E domain \in {"my-app.localhost", "sub.my-app.localhost"} :
          DeleteDir(domain)

SpecGw == InitGw /\ [][NextGw]_vars

-----------------------------------------------------------------------------
(* Properties of the connection, checked under SpecConn *)

\* a DHT operation of the connection completes
DhtOp ==
    \/ \E k \in ConnKeys, v \in ConnValues :
          DhtSet(k, v) /\ UNCHANGED <<kvVars, uriVars>>
    \/ \E k \in ConnKeys : DhtGet(k) /\ UNCHANGED <<kvVars, uriVars>>
    \/ \E k \in ConnKeys : DhtDelete(k) /\ UNCHANGED <<kvVars, uriVars>>

C8_AttachRetry ==
    /\ attachLog.calls <= 3
    /\ attachLog.calls = attachLog.failures + (IF attachLog.lastOk THEN 1 ELSE 0)
    /\ pc = "attach" => /\ attachLog.result = "none"
                        /\ attachLog.sleeps = attachLog.calls
                        /\ attempt = attachLog.calls + 1
                        /\ ENABLED Attach
    /\ pc = "sleep" => /\ attachLog.result = "none"
                       /\ attachLog.sleeps = attachLog.calls - 1
                       /\ attachLog.calls < 3
                       /\ ENABLED Sleep
    /\ pc = "attached" => /\ attachLog.result = "Ok"
                          /\ attachLog.lastOk
                          /\ attachLog.failures < 3
                          /\ attachLog.sleeps = attachLog.failures
    /\ pc \in {"attach", "sleep", "attached"} => ~(attachLog.failures = 3)
    /\ attachLog.result = "ConnectionFailed" <=> attachLog.failures = 3
    /\ attachLog.result = "ConnectionFailed" =>
          /\ pc = "fallback"
          /\ attachLog.calls = 3
          /\ attachLog.sleeps = 2

\* C8: the third attempt has failed and ConnectionFailed is returned
C8_Witness ==
    /\ pc = "fallback"
    /\ attachLog.result = "ConnectionFailed"
    /\ attachLog.calls = 3
    /\ attachLog.sleeps = 2

\* C9: disconnect() returns Ok and leaves no api, the default state
\* (is_connected false, Detached), no routing context and an empty storage,
\* whatever the connection was before; run again on a connection that is in
\* that state it changes nothing of the connection.
C9_DisconnectIdempotent ==
    [][DisconnectFinish =>
         /\ last'.op = "disconnect" /\ last'.result = "Ok"
         /\ api' = "None"
         /\ state' = [is_connected |-> FALSE, attachment_state |-> "Detached",
                      network_started |-> FALSE,
                      use_fallback_storage |-> FALSE, node_id |-> "None"]
         /\ routing_context' = FALSE
         /\ storage' = EmptyMap
         /\ (last.op = "disconnect" /\ state = DefaultState)
               => UNCHANGED connVars]_vars

\* C9: a second disconnect() is running right after a first one returned
C9_Witness ==
    /\ pc = "cleanup"
    /\ last.op = "disconnect"
    /\ state = DefaultState

\* the fields of the ConnectionState other than those in "changed" are equal
SameExcept(s, t, changed) ==
    \A f \in (DOMAIN s) \ changed : s[f] = t[f]

\* C10: update_callback leaves the state unchanged for Log, Config,
\* RouteChange, ValueChange, AppMessage and AppCall; Attachment changes only
\* attachment_state, Network only network_started, and Shutdown sets
\* is_connected = false, network_started = false, attachment_state =
\* Detached and nothing else. Nothing outside the state is touched.
C10_UpdateFrame ==
    [][\A u \in Updates : RunCallback(u) =>
         /\ UNCHANGED <<api, storage, routing_context, table, npub>>
         /\ u.kind \in {"Log", "Config", "RouteChange", "ValueChange",
                        "AppMessage", "AppCall"} => state' = state
         /\ u.kind = "Attachment" =>
               /\ SameExcept(state, state', {"attachment_state"})
               /\ state'.attachment_state = u.attachment
         /\ u.kind = "Network" =>
               /\ SameExcept(state, state', {"network_started"})
               /\ state'.network_started = u.started
         /\ u.kind = "Shutdown" =>
               /\ SameExcept(state, state', {"is_connected", "network_started",
                                             "attachment_state"})
               /\ ~state'.is_connected
               /\ ~state'.network_started
               /\ state'.attachment_state = "Detached"]_vars

\* C10: a Shutdown update has been applied to a connected node: the flags
\* are cleared, the node id and the api are kept
C10_Witness ==
    /\ api = "Some"
    /\ state.node_id = "node"
    /\ ~state.is_connected
    /\ ~state.network_started
    /\ state.attachment_state = "Detached"


-----------------------------------------------------------------------------
(* Properties of the store, checked under Spec *)

\* the slug mapping as a read without failure sees it
SlugMappingOf(d) == MapOrDefault(Lookup(d, slug_mapping_key))

\* the name mapping as a read without failure sees it
NameMappingOf(d) == MapOrDefault(Lookup(d, name_mapping_key))

\* the index as a read without failure sees it
IndexOf(d) ==
    IF index_key \in DOMAIN d THEN Deserialize("index", d[index_key]).body
    ELSE EmptyMap

\* the identifier names no slug, no package name and no id of the index
Unresolved(d, id) ==
    /\ id \notin DOMAIN SlugMappingOf(d)
    /\ id \notin DOMAIN NameMappingOf(d)
    /\ \A k \in DOMAIN IndexOf(d) : IndexOf(d)[k].id # id

\* the values stored under the package keys
StoredPackages(d) == {d[k] : k \in {x \in DOMAIN d : d[x].kind = "package"}}

Visible(d) ==
    [get_app |-> [id \in Ids |-> get_app(d, {"Ok"}, id)],
     get_latest_version |-> [id \in Ids |-> get_latest_version(d, {"Ok"}, id)],
     search |-> search(d, {"Ok"}),
     download |-> [uri \in Uris |-> download(d, {"Ok"}, uri)]]

\* C3 as stated: when publish returns an error or is cancelled, get_app,
\* get_latest_version, search and download return what they returned before
\* the publish began.
C3_FailedPublishInvisible ==
    [][(pub.pc # "idle" /\ pub'.pc = "idle" /\ last'.result # "Ok")
          => Visible(Dht') = Visible(pub.before)]_vars

\* C4: a download none of whose reads fails returns AppNotFound, and no
\* package, when the app_id resolves to nothing or there is no data under
\* the package key; a download that has returned Ok has returned a package
\* stored under a package key, and any other result carries no package.
C4_NotFound ==
    (pc = "idle" /\ pub.pc = "idle") =>
       /\ \A uri \in Uris :
             LET unresolved == Unresolved(Dht, uri.app_id)
                 absent ==
                    /\ uri.version # NoVersion
                    /\ \A rs \in resolve_to_slug(Dht, {"Ok"}, uri.app_id) :
                          /\ rs.value # None
                          /\ app_key(rs.value.v, uri.version) \notin DOMAIN Dht
             IN  (unresolved \/ absent) =>
                    \A r \in download(Dht, {"Ok"}, uri) :
                       r.result = "AppNotFound" /\ r.value = None
       /\ last.op = "download" =>
             /\ last.result = "Ok" =>
                   /\ last.value # None
                   /\ Serialize("package", last.value.v) \in StoredPackages(Dht)
             /\ last.result # "Ok" => last.value = None

\* C4: every identifier resolves, and a download none of whose reads failed
\* has returned AppNotFound: the data of the version asked for is absent
C4_Witness ==
    /\ \A id \in Ids : ~Unresolved(Dht, id)
    /\ last.op = "download"
    /\ last.result = "AppNotFound"
    /\ last.clean
    /\ last.value = None

-----------------------------------------------------------------------------
(* Properties of the update callbacks, checked under SpecCb *)

\* the attachment state an Attachment or Shutdown update carries
Carried(u) ==
    IF u.kind = "Shutdown" THEN "Detached"
    ELSE from_veilid_attachment(u.attachment)

\* the positions in delivered of the Attachment and Shutdown updates
AttachmentUpdates ==
    {i \in 1 .. Len(delivered) : delivered[i].kind \in {"Attachment", "Shutdown"}}

\* C11: once every delivered update has been processed, attachment_state is
\* the state carried by the last delivered Attachment or Shutdown update.
C11_DeliveryOrder ==
    (spawned = {} /\ AttachmentUpdates # {}) =>
       LET n == CHOOSE i \in AttachmentUpdates :
                   \A j \in AttachmentUpdates : j <= i
       IN  state.attachment_state = Carried(delivered[n])

-----------------------------------------------------------------------------
(* Properties of the gateway, checked under SpecGw *)

\* the part of host that precedes "." and the gateway domain, ports stripped
\* from both; None for the gateway domain itself and for any other host
SubdomainOf(hostname, domain) ==
    LET h == BeforeColon(hostname)
        g == BeforeColon(domain)
        n == Len(h) - Len(g) - 1
    IN  IF n >= 1 /\ SubSeq(h, n + 1, Len(h)) = <<".">> \o g
        THEN Some(Str(SubSeq(h, 1, n)))
        ELSE None

\* C12: the domain a request is handled for is the part of its host that
\* precedes the gateway domain, and there is none when the host is the
\* gateway domain or is not a subdomain of it.
C12_TargetDomain ==
    \A r \in Requests :
       req[r].pc # "idle" =>
          req[r].domain = SubdomainOf(req[r].hostname, GatewayDomain)

\* the domain has no TXT value that starts with "veilid-app="
NoVeilidTxt(domain) ==
    \A i \in 1 .. Len(TxtRecords(domain)) :
       TxtRecords(domain)[i].prefix # "veilid-app="

\* the domains the requests of the model are handled for
Domains == {"my-app.localhost", "sub.my-app.localhost", "invalid.com"}

\* C13: a request for a domain without a "veilid-app=" TXT value returns 404
\* from the lookup step and changes neither the AppCache nor the
\* directories nor the store; no request for such a domain gets past the
\* lookup, store.download is never called for it, and it has neither a
\* cache entry nor a directory.
C13_NoTxtNotFound ==
    [][/\ \A r \in Requests :
             (/\ req[r].pc = "lookup"
              /\ req'[r] # req[r]
              /\ NoVeilidTxt(req[r].domain.v))
             => /\ req'[r].pc = "done"
                /\ req'[r].resp = Response(404, None)
                /\ cache' = cache /\ disk' = disk
                /\ downloads' = downloads /\ store_lock' = store_lock
                /\ storage' = storage /\ table' = table
       /\ \A r \in Requests :
             (req'[r].pc \notin {"idle", "lookup", "done"})
             => ~NoVeilidTxt(req'[r].domain.v)
       /\ \A d \in Domains :
             NoVeilidTxt(d) =>
                /\ d \notin downloads'
                /\ d \notin DOMAIN cache'
                /\ d \notin DOMAIN disk']_vars

\* C13: a request for invalid.com, which has a TXT value but none for the
\* gateway, has been answered 404 while another domain is cached
C13_Witness ==
    \E r \in Requests :
       /\ req[r].pc = "done"
       /\ req[r].domain = Some("invalid.com")
       /\ req[r].via = "no_txt"
       /\ req[r].resp.status = 404
       /\ DOMAIN cache # {}

\* C14: when the domain resolves to a record id, nothing is cached for it
\* and store.download fails, the response is 503 (not 404) and no cache
\* entry is inserted.
C14_DownloadFailed503 ==
    [][\A r \in Requests :
          (/\ req[r].pc = "download"
           /\ req'[r].pc = "done")
          => /\ req'[r].resp.status = 503
             /\ cache' = cache]_vars

\* C15: a request that arrives when the AppCache holds an entry for its
\* domain (one request has downloaded and extracted the package) is, when
\* its TXT lookup resolves, served from the extract_path of that entry: it
\* never takes the store mutex and never calls store.download, and entries
\* of the AppCache are never removed.
C15_SecondRequestFromMemory ==
    [][/\ \A r \in Requests :
             (/\ req[r].pc = "cache"
              /\ req[r].late
              /\ req'[r] # req[r])
             => /\ req'[r].pc = "done"
                /\ req'[r].via = "memory"
                /\ req'[r].resp =
                      serve_static_file(disk,
                          cache[req[r].domain.v].extract_path, req'[r].path)
                /\ downloads' = downloads
                /\ store_lock' = store_lock
       /\ \A r \in Requests :
             (req'[r].pc # "idle" /\ req'[r].late)
             => /\ req'[r].pc \in {"lookup", "cache", "done"}
                /\ req'[r].pc = "done"
                   => req'[r].via \in {"memory", "no_txt"}
       /\ \A d \in DOMAIN cache : d \in DOMAIN cache']_vars

\* C15: a request that arrived after the download of its domain has been
\* served a file of the package from the in-memory entry
C15_Witness ==
    \E r \in Requests :
       /\ req[r].pc = "done"
       /\ req[r].late
       /\ req[r].via = "memory"
       /\ req[r].resp.status = 200
       /\ req[r].domain.v \in downloads
       /\ req[r].domain.v \in DOMAIN cache

\* request r, after a miss in the AppCache, finds cache_dir/<domain>
DirHit(r) ==
    /\ req[r].pc = "dir"
    /\ req'[r] # req[r]
    /\ req[r].domain.v \in DOMAIN disk

\* C16 as stated: on a miss in the AppCache where cache_dir/<domain>
\* exists, the request is served from the directory without store.download
\* and an entry for the domain is inserted into the AppCache.
C16_DirHitPopulatesCache ==
    [][\A r \in Requests :
          DirHit(r) =>
             /\ req'[r].pc = "done"
             /\ req'[r].via = "disk"
             /\ downloads' = downloads
             /\ req[r].domain.v \in DOMAIN cache']_vars

\* C16 amended: on a miss in the AppCache where cache_dir/<domain> exists,
\* the request is served from the directory without the store mutex and
\* without store.download, and the AppCache is left as it was: the request
\* inserts no entry.
C16_DirHitLeavesCache ==
    [][\A r \in Requests :
          DirHit(r) =>
             /\ req'[r].pc = "done"
             /\ req'[r].via = "disk"
             /\ req'[r].resp =
                   serve_static_file(disk, <<req[r].domain.v>>, req'[r].path)
             /\ downloads' = downloads
             /\ store_lock' = store_lock
             /\ cache' = cache]_vars

\* C16: two requests for one domain have both been served from its
\* directory, and the AppCache still has no entry for the domain
C16_Witness ==
    \E r1, r2 \in Requests :
       /\ r1 # r2
       /\ req[r1].pc = "done" /\ req[r2].pc = "done"
       /\ req[r1].via = "disk" /\ req[r2].via = "disk"
       /\ req[r1].domain = req[r2].domain
       /\ req[r1].resp.status = 200
       /\ req[r1].domain.v \notin DOMAIN cache
       /\ downloads = {}

RECURSIVE Resolve(_, _)
\* the resolved form of a path: each ".." removes the component before it
Resolve(done, path) ==
    IF path = <<>> THEN done
    ELSE IF Head(path) = ".."
    THEN Resolve(IF done = <<>> THEN <<>>
                 ELSE SubSeq(done, 1, Len(done) - 1), Tail(path))
    ELSE Resolve(Append(done, Head(path)), Tail(path))

\* C17: a request whose path, resolved, lies outside the directory of its
\* domain is answered 403, and a request that is answered 200 got a file
\* of the directory of its own domain.
C17_NoTraversal ==
    \A r \in Requests :
       (req[r].pc = "done" /\ req[r].via \in {"memory", "disk", "download"})
       => LET base == <<req[r].domain.v>>
              resolved ==
                 Resolve(<<>>, base \o TrimStartSlashes(req[r].path))
          IN  /\ ~StartsWith(resolved, base) => req[r].resp.status = 403
              /\ req[r].resp.status = 200
                 => req[r].resp.body.v.dir = req[r].domain.v

\* C18: a request that has missed the AppCache and comes to extract and
\* insert when another request has already inserted an entry for the domain
\* discards its own result: its steps change neither the entry nor the
\* extracted directory of the domain.
C18_MissesCoalesced ==
    [][\A r \in Requests :
          (/\ req[r].pc \in {"remove", "create", "unpack", "insert"}
           /\ req'[r] # req[r]
           /\ req[r].domain.v \in DOMAIN cache)
          => /\ cache' = cache
             /\ disk' = disk]_vars

\* the requested path names a file of the package
InPackage(path, package) ==
    LET clean_path == IF path = <<>> \/ path = <<"">> THEN <<"index.html">>
                      ELSE TrimStartSlashes(path)
    IN  /\ Len(clean_path) = 1
        /\ clean_path[1] \in FileSet(ArchiveFiles(package.content))

\* C19: the directory of a domain is replaced atomically, so that as long
\* as nobody deletes a directory by hand no request served through the
\* cache entry of its domain sees a missing or half-extracted directory: a
\* 404 for a path means that the path is not in the package.
C19_NeverPartial ==
    deleted = FALSE =>
       \A r \in Requests :
          (/\ req[r].pc = "done"
           /\ req[r].via \in {"memory", "download"}
           /\ req[r].resp.status = 404)
          => ~InPackage(req[r].path, cache[req[r].domain.v].package)

\* no request other than r is being handled
Alone(r) ==
    \A q \in Requests \ {r} : req[q].pc \in {"idle", "done"}

\* C20: after the directory of a domain has been deleted while the AppCache
\* holds an entry for the domain, the next request for the domain is not
\* answered from the entry: it goes on to download the package again.
\* (No other request is being handled, so the directory is not missing
\* because of an extraction under way.)
C20_DeletedDirRepopulated ==
    [][\A r \in Requests :
          (/\ req[r].pc = "cache"
           /\ req'[r] # req[r]
           /\ Alone(r)
           /\ deleted
           /\ req[r].domain.v \in DOMAIN cache
           /\ req[r].domain.v \notin DOMAIN disk)
          => req'[r].pc # "done"]_vars

-----------------------------------------------------------------------------
(* Packages: PackageBuilder::build, Package::from_bytes, validate_manifest,
   verify_signature and CryptoManager.  A String that holds a signature is
   a record telling whether it is hex, how many bytes it decodes to and what
   the bytes are; the other Strings, keys included, are TLA+ strings *)

\* crate::MANIFEST_FILENAME
MANIFEST_FILENAME == "veilid.json"

\* String::new() in the signature field
EmptyString == [hex |-> FALSE, len |-> 0]

\* a signature String that hex::decode rejects
NotHex == [hex |-> FALSE, len |-> 2]

\* hex::encode of len bytes, for a signature
HexString(len, bytes) == [hex |-> TRUE, len |-> len, bytes |-> bytes]

\* the fields of PackageManifest that are plain Strings and that spec and
\* validate_manifest care about
ManifestStrings ==
    {"name", "version", "description", "developer", "author", "category",
     "entry", "identity"}

\* a PackageManifest: tags, dependencies, permissions, format_version and the
\* dates are the same in all manifests of the model and left out
Manifest(strings, slug, signature, public_key) ==
    [name |-> strings.name, version |-> strings.version,
     description |-> strings.description, developer |-> strings.developer,
     author |-> strings.author, category |-> strings.category,
     entry |-> strings.entry, identity |-> strings.identity,
     slug |-> slug, signature |-> signature, public_key |-> public_key]

\* serde_json::to_vec(&manifest)
ManifestJson(manifest) == [kind |-> "json", manifest |-> manifest]

\* the bytes of a file that is no PackageManifest
FileBytes(id) == [kind |-> "bytes", id |-> id]

\* an entry of a tar archive: header path and data
TarEntry(path, body) == [path |-> path, body |-> body]

\* a gzipped tar archive
TarGz(entries) == [kind |-> "targz", entries |-> entries]

\* Vec::new()
EmptyBytes == [kind |-> "empty"]

\* bytes that are no gzipped tar archive
Garbage == [kind |-> "garbage"]

\* path.file_name()
file_name(path) == path[Len(path)]

\* validate_manifest that tests every field the manifest must carry
validate_manifest_all(manifest) ==
    IF \E f \in ManifestStrings \ {"identity"} : manifest[f] = ""
    THEN "a required field is empty"
    ELSE "Ok"

\* Package::validate_manifest
validate_manifest(manifest) ==
    IF manifest.name = "" THEN "name cannot be empty"
    ELSE IF manifest.version = "" THEN "version cannot be empty"
    ELSE IF manifest.entry = "" THEN "entry point cannot be empty"
    ELSE IF manifest.identity = "" THEN "identity cannot be empty"
    ELSE "Ok"

\* a Result: Ok(value) or Err(error)
Ok(value) == [result |-> "Ok", value |-> value]

Err(error, reason) == [result |-> error, reason |-> reason]

\* the place of the first entry of the archive whose file name is
\* MANIFEST_FILENAME, 0 when there is none
FirstManifest(entries) ==
    LET at == {i \in 1 .. Len(entries) :
                  file_name(entries[i].path) = MANIFEST_FILENAME}
    IN  IF at = {} THEN 0 ELSE CHOOSE i \in at : \A j \in at : i <= j

\* Package::from_bytes
from_bytes(content) ==
    IF content.kind # "targz" THEN Err("Io", "")
    ELSE LET found == FirstManifest(content.entries)
         IN  IF found = 0 THEN Err("MissingManifest", "")
             ELSE LET manifest_content == content.entries[found].body
                  IN  IF manifest_content.kind # "json"
                      THEN Err("Serialization", "")
                      ELSE LET manifest == manifest_content.manifest
                               valid == validate_manifest(manifest)
                           IN  IF valid # "Ok"
                               THEN Err("InvalidManifest", valid)
                               ELSE Ok([manifest |-> manifest,
                                        content |-> content,
                                        data |-> EmptyBytes])

\* the key Strings of the model: hex of 32 bytes, apart from "" (empty),
\* "zz" (no hex) and "abcd" (hex of 2 bytes); "ff32" is hex of 32 bytes
\* that are no point of the curve
KeyStrings == {"pk1", "pk2", "sk1", "sk2", "", "zz", "abcd", "ff32"}

\* hex::decode(key) is Ok
IsHexKey(key) == key \in {"pk1", "pk2", "sk1", "sk2", "abcd", "ff32"}

\* the length of hex::decode(key)
KeyBytes(key) == IF key = "abcd" THEN 2 ELSE 32

\* SigningKey::from_bytes: any 32 bytes are a signing key; 1 and 2 are the
\* keys of the pairs generate_keypair gives, 3 stands for every other one
SigningKeyOf(private_key) ==
    CASE private_key = "sk1" -> 1
      [] private_key = "sk2" -> 2
      [] OTHER -> 3

\* VerifyingKey::from_bytes: the key, or None for bytes that are no point
VerifyingKeyOf(public_key) ==
    CASE public_key = "pk1" -> Some(1)
      [] public_key = "pk2" -> Some(2)
      [] OTHER -> None

\* CryptoManager::generate_keypair: the pairs it can give
KeyPairs == {<<"pk1", "sk1">>, <<"pk2", "sk2">>}

\* CryptoManager::sign; an Ed25519 signature is the pair of the data and
\* the signing key
sign(data, private_key) ==
    IF ~IsHexKey(private_key) THEN Err("InvalidKey", "Invalid secret key hex")
    ELSE IF KeyBytes(private_key) # 32
    THEN Err("InvalidKey", "Secret key must be 32 bytes")
    ELSE Ok(HexString(64, [data |-> data,
                           key |-> SigningKeyOf(private_key)]))

\* CryptoManager::verify that only compares the keys
verify_key_only(data, signature, public_key) ==
    IF ~IsHexKey(public_key) THEN Err("InvalidKey", "Invalid public key hex")
    ELSE IF ~signature.hex THEN Err("InvalidKey", "Invalid signature hex")
    ELSE IF KeyBytes(public_key) # 32
    THEN Err("InvalidKey", "Public key must be 32 bytes")
    ELSE IF signature.len # 64
    THEN Err("InvalidKey", "Signature must be 64 bytes")
    ELSE IF VerifyingKeyOf(public_key) = None
    THEN Err("InvalidKey", "Invalid public key")
    ELSE Ok(signature.bytes.key = VerifyingKeyOf(public_key).v)

\* CryptoManager::verify
verify(data, signature, public_key) ==
    IF ~IsHexKey(public_key) THEN Err("InvalidKey", "Invalid public key hex")
    ELSE IF ~signature.hex THEN Err("InvalidKey", "Invalid signature hex")
    ELSE IF KeyBytes(public_key) # 32
    THEN Err("InvalidKey", "Public key must be 32 bytes")
    ELSE IF signature.len # 64
    THEN Err("InvalidKey", "Signature must be 64 bytes")
    ELSE IF VerifyingKeyOf(public_key) = None
    THEN Err("InvalidKey", "Invalid public key")
    ELSE Ok(/\ signature.bytes.data = data
            /\ signature.bytes.key = VerifyingKeyOf(public_key).v)

\* Package::verify_signature
verify_signature(package) ==
    IF package.manifest.signature = EmptyString
       \/ package.manifest.public_key = ""
    THEN Ok(FALSE)
    ELSE LET unsigned_manifest ==
                [package.manifest EXCEPT !.signature = EmptyString]
         IN  verify(ManifestJson(unsigned_manifest),
                    package.manifest.signature, package.manifest.public_key)

\* Package::extract_files: path -> contents of every entry that is not
\* named MANIFEST_FILENAME
extract_files(package) ==
    LET entries == package.content.entries
        kept == {i \in 1 .. Len(entries) :
                    file_name(entries[i].path) # MANIFEST_FILENAME}
    IN  [path \in {entries[i].path : i \in kept} |->
            LET last_at == CHOOSE i \in kept :
                              /\ entries[i].path = path
                              /\ \A j \in kept :
                                    entries[j].path = path => j <= i
            IN  entries[last_at].body]

\* a PackageBuilder after PackageBuilder::new and its setters
Builder(name, description, developer, identity, keypair) ==
    [name |-> name, version |-> "1.0.0", description |-> description,
     developer |-> developer, entry |-> "index.html",
     identity |-> identity, keypair |-> keypair]

\* the builders of the model
Builders ==
    { Builder("app", "", "", None, None),
      Builder("app", "d", "dev", None, None),
      Builder("", "d", "dev", None, None),
      Builder("app", "d", "dev", Some("me"), Some(<<"pk1", "sk1">>)),
      Builder("app", "d", "dev", None, Some(<<"pk1", "sk2">>)),
      Builder("app", "d", "dev", None, Some(<<"pk1", "zz">>)) }

\* a manifest written by hand, as a file of a source directory
UserManifest ==
    Manifest([f \in ManifestStrings |-> "user"], "", EmptyString, "")

\* the source directories of the model, as read_dir lists their files
SourceDirs ==
    { <<>>,
      <<TarEntry(<<"index.html">>, FileBytes(1))>>,
      <<TarEntry(<<"index.html">>, FileBytes(1)),
        TarEntry(<<"assets", "style.css">>, FileBytes(2))>>,
      <<TarEntry(<<"index.html">>, FileBytes(1)),
        TarEntry(<<MANIFEST_FILENAME>>, FileBytes(3))>>,
      <<TarEntry(<<MANIFEST_FILENAME>>, ManifestJson(UserManifest)),
        TarEntry(<<"index.html">>, FileBytes(1))>>,
      <<TarEntry(<<"index.html">>, FileBytes(1)),
        TarEntry(<<"docs", MANIFEST_FILENAME>>, FileBytes(3))>> }

\* PackageBuilder::build; generated is what generate_keypair gives
build(b, dir, generated) ==
    LET keys == IF b.keypair # None THEN b.keypair.v ELSE generated
        public_key == keys[1]
        private_key == keys[2]
        identity == IF b.identity # None THEN b.identity.v ELSE public_key
        manifest ==
           Manifest([name |-> b.name, version |-> b.version,
                     description |-> b.description,
                     developer |-> b.developer, author |-> b.developer,
                     category |-> "general", entry |-> b.entry,
                     identity |-> identity],
                    "", EmptyString, public_key)
        tar_data ==
           TarGz(dir \o <<TarEntry(<<MANIFEST_FILENAME>>,
                                   ManifestJson(manifest))>>)
        signature == sign(ManifestJson(manifest), private_key)
    IN  IF signature.result # "Ok" THEN Err(signature.result, signature.reason)
        ELSE Ok([manifest |-> [manifest EXCEPT !.signature = signature.value],
                 content |-> tar_data,
                 data |-> tar_data])

\* archives written by hand: no archive at all, an archive without a
\* manifest, one whose veilid.json is no JSON, and one for every choice of
\* empty and non-empty manifest Strings
HandMadeFiles ==
    {Garbage,
     TarGz(<<TarEntry(<<"index.html">>, FileBytes(1))>>),
     TarGz(<<TarEntry(<<"index.html">>, FileBytes(1)),
             TarEntry(<<MANIFEST_FILENAME>>, FileBytes(3))>>)}
    \cup
    {TarGz(<<TarEntry(<<"index.html">>, FileBytes(1)),
             TarEntry(<<MANIFEST_FILENAME>>,
                      ManifestJson(Manifest(strings, "", EmptyString, "")))>>)
       : strings \in [ManifestStrings -> {"", "x"}]}

\* the values a manifest field is changed to
FieldValues(field) ==
    CASE field = "signature" ->
           {EmptyString, NotHex, HexString(2, None),
            HexString(64, [data |-> None, key |-> 1])}
      [] field = "public_key" -> {"", "zz", "abcd", "ff32", "pk1", "pk2"}
      [] OTHER -> {"", "changed"}

\* the package a stage of the pipeline holds, None when it holds none
PackageAt(stage) ==
    LET res == CASE stage = "built" -> built
                 [] stage = "loaded" -> loaded
                 [] stage = "downloaded" -> downloaded
    IN  IF res # None /\ res.result = "Ok" THEN Some(res.value) ELSE None

\* roselite bundle: PackageBuilder::build
Build ==
    /\ built = None
    /\ \E generated \in KeyPairs :
          built' = build(builder, source_dir, generated)
    /\ UNCHANGED <<api, state, storage, routing_context, table, core, pc,
                   attempt, attachLog, last, pub, watch, npub, cbVars, gwVars, kvVars, uriVars,
                   source_dir, builder, file, loaded, downloaded, verified,
                   tampered, extracted>>

\* a field of the manifest of the built package is changed
Tamper(field, value) ==
    /\ PackageAt("built") # None
    /\ tampered = None
    /\ built.value.manifest[field] # value
    /\ built' = [built EXCEPT !.value.manifest[field] = value]
    /\ tampered' = Some(field)
    /\ verified' = None
    /\ UNCHANGED <<api, state, storage, routing_context, table, core, pc,
                   attempt, attachLog, last, pub, watch, npub, cbVars, gwVars, kvVars, uriVars,
                   source_dir, builder, file, loaded, downloaded, extracted>>

\* roselite bundle: tokio::fs::write(&output_path, &package.content)
WriteFile ==
    /\ PackageAt("built") # None
    /\ file # built.value.content
    /\ file' = built.value.content
    /\ loaded' = None
    /\ downloaded' = None
    /\ extracted' = None
    /\ verified' = None
    /\ UNCHANGED <<api, state, storage, routing_context, table, core, pc,
                   attempt, attachLog, last, pub, watch, npub, cbVars, gwVars, kvVars, uriVars,
                   source_dir, builder, built, tampered>>

\* Package::from_file
FromFile ==
    /\ file # None
    /\ loaded = None
    /\ loaded' = from_bytes(file)
    /\ UNCHANGED <<api, state, storage, routing_context, table, core, pc,
                   attempt, attachLog, last, pub, watch, npub, cbVars, gwVars, kvVars, uriVars,
                   source_dir, builder, built, file, downloaded, verified,
                   tampered, extracted>>

\* publish of the loaded package and download of its URI, on a store whose
\* reads and writes succeed: the package comes back as it was serialized
PublishDownload ==
    /\ PackageAt("loaded") # None
    /\ downloaded = None
    /\ LET read == Deserialize("package", Serialize("package", loaded.value))
       IN  downloaded' = IF read.ok THEN Ok(read.body)
                         ELSE Err("Serialization", "")
    /\ UNCHANGED <<api, state, storage, routing_context, table, core, pc,
                   attempt, attachLog, last, pub, watch, npub, cbVars, gwVars, kvVars, uriVars,
                   source_dir, builder, built, file, loaded, verified,
                   tampered, extracted>>

\* Package::extract_files of the loaded package
ExtractFiles ==
    /\ PackageAt("loaded") # None
    /\ extracted = None
    /\ extracted' = Ok(extract_files(loaded.value))
    /\ UNCHANGED <<api, state, storage, routing_context, table, core, pc,
                   attempt, attachLog, last, pub, watch, npub, cbVars, gwVars, kvVars, uriVars,
                   source_dir, builder, built, file, loaded, downloaded,
                   verified, tampered>>

\* Package::verify_signature of the package of a stage
VerifySignature(stage) ==
    /\ PackageAt(stage) # None
    /\ IF verified = None THEN TRUE ELSE verified.of # stage
    /\ verified' = [of |-> stage,
                    result |-> verify_signature(PackageAt(stage).v)]
    /\ UNCHANGED <<api, state, storage, routing_context, table, core, pc,
                   attempt, attachLog, last, pub, watch, npub, cbVars, gwVars, kvVars, uriVars,
                   source_dir, builder, built, file, loaded, downloaded,
                   tampered, extracted>>

\* a package tool before it has done anything: either a .veilidpkg file
\* from elsewhere, or a source directory to be bundled
InitPkg ==
    /\ api = "None"
    /\ state = DefaultState
    /\ storage = EmptyMap
    /\ routing_context = FALSE
    /\ table = EmptyMap
    /\ core = "stopped"
    /\ pc = "idle"
    /\ attempt = 0
    /\ attachLog = NoAttach
    /\ last = NoOp
    /\ pub = PubIdle
    /\ watch = NoWatch
    /\ npub = 0
    /\ CbIdle
    /\ GwIdle
    /\ \/ /\ file \in HandMadeFiles
          /\ builder = Builder("app", "", "", None, None)
          /\ source_dir = <<>>
       \/ /\ file = None
          /\ builder \in Builders
          /\ source_dir \in SourceDirs
    /\ built = None
    /\ loaded = None
    /\ downloaded = None
    /\ verified = None
    /\ tampered = None
    /\ extracted = None
    /\ KvIdle
    /\ UriIdle

NextPkg ==
    \/ Build
    \/ \E field \in ManifestStrings \cup {"slug", "signature", "public_key"} :
          \E value \in FieldValues(field) : Tamper(field, value)
    \/ WriteFile
    \/ FromFile
    \/ PublishDownload
    \/ ExtractFiles
    \/ \E stage \in {"built", "loaded", "downloaded"} : VerifySignature(stage)

SpecPkg == InitPkg /\ [][NextPkg]_vars

-----------------------------------------------------------------------------
(* Properties of the packages, checked under SpecPkg *)

\* the archive has an entry whose file name is MANIFEST_FILENAME
HasManifestEntry(content) ==
    \E i \in 1 .. Len(content.entries) :
       file_name(content.entries[i].path) = MANIFEST_FILENAME

\* the data of the first such entry
ManifestEntry(content) ==
    LET i == CHOOSE i \in 1 .. Len(content.entries) :
                /\ file_name(content.entries[i].path) = MANIFEST_FILENAME
                /\ \A j \in 1 .. i - 1 :
                      file_name(content.entries[j].path) # MANIFEST_FILENAME
    IN  content.entries[i].body

\* the fields the manifest must carry according to the format
RequiredFields ==
    {"name", "version", "description", "developer", "author", "category",
     "entry"}

\* C21 as stated: from_bytes fails with MissingManifest for an archive
\* without a veilid.json entry, with InvalidManifest when one of name,
\* version, description, developer, author, category, entry is empty, and
\* returns a package only when all seven are non-empty.
C21_AllRequiredFields ==
    (loaded # None /\ file.kind = "targz") =>
       /\ ~HasManifestEntry(file) => loaded.result = "MissingManifest"
       /\ (HasManifestEntry(file) /\ ManifestEntry(file).kind = "json") =>
            LET manifest == ManifestEntry(file).manifest
                empty == \E f \in RequiredFields : manifest[f] = ""
            IN  /\ empty => loaded.result = "InvalidManifest"
                /\ loaded.result = "Ok" => ~empty

\* C21 amended: from_bytes fails with MissingManifest for an archive
\* without a veilid.json entry; for an archive whose first veilid.json
\* entry is a manifest it fails with InvalidManifest exactly when name,
\* version, entry or identity is empty and otherwise returns the package
\* with that manifest, whatever description, developer, author and
\* category are.
C21_ValidatedFields ==
    (loaded # None /\ file.kind = "targz") =>
       /\ ~HasManifestEntry(file) => loaded.result = "MissingManifest"
       /\ (HasManifestEntry(file) /\ ManifestEntry(file).kind = "json") =>
            LET manifest == ManifestEntry(file).manifest
                empty == \E f \in {"name", "version", "entry", "identity"} :
                            manifest[f] = ""
            IN  /\ empty <=> loaded.result = "InvalidManifest"
                /\ ~empty <=> loaded.result = "Ok"
                /\ loaded.result = "Ok" =>
                      /\ loaded.value.manifest = manifest
                      /\ loaded.value.content = file

\* C21: from_bytes has returned a package whose description, developer,
\* author and category are empty
C21_Witness ==
    /\ loaded # None
    /\ loaded.result = "Ok"
    /\ loaded.value.manifest.description = ""
    /\ loaded.value.manifest.developer = ""
    /\ loaded.value.manifest.author = ""
    /\ loaded.value.manifest.category = ""
    /\ loaded.value.manifest.name # ""

\* the source directory has no file named MANIFEST_FILENAME
PlainSourceDir ==
    \A i \in 1 .. Len(source_dir) :
       file_name(source_dir[i].path) # MANIFEST_FILENAME

\* C22: a package that build has made and signed (verify_signature is true
\* for what build returned), written to a file, loaded with from_file,
\* published and downloaded, still verifies: the downloaded manifest has
\* the signature and the public key build produced.
C22_SignatureSurvives ==
    (/\ PackageAt("built") # None
     /\ tampered = None
     /\ PlainSourceDir
     /\ verify_signature(built.value) = Ok(TRUE)
     /\ file = built.value.content
     /\ verified # None
     /\ verified.of = "downloaded")
    => /\ verified.result = Ok(TRUE)
       /\ downloaded.value.manifest.signature =
             built.value.manifest.signature
       /\ downloaded.value.manifest.public_key =
             built.value.manifest.public_key

\* build signed with the secret key of a pair of generate_keypair and put
\* the public key of the same pair into the manifest
SignedWithKeyPair ==
    IF builder.keypair = None THEN TRUE ELSE builder.keypair.v \in KeyPairs

-----------------------------------------------------------------------------
(* The DHT calls of a connected VeilidConnection, with the key-value map
   they are expected to implement *)

\* keys of the calls
KvKeys == {"k1", "k2"}

\* dht_set(k, v), and the expected map: a set that returned Ok is the most
\* recent value of k
KvSet(k, v) ==
    /\ DhtSet(k, v)
    /\ expect' = IF last'.result = "Ok" THEN Put(expect, k, v) ELSE expect
    /\ asked' = asked
    /\ UNCHANGED uriVars

\* dht_get(k)
KvGet(k) ==
    /\ DhtGet(k)
    /\ asked' = Some(k)
    /\ expect' = expect
    /\ UNCHANGED uriVars

\* dht_delete(k), and the expected map: a delete that returned Ok leaves k
\* without a value
KvDelete(k) ==
    /\ DhtDelete(k)
    /\ expect' = IF last'.result = "Ok" THEN Remove(expect, k) ELSE expect
    /\ asked' = asked
    /\ UNCHANGED uriVars

NextDht ==
    \/ \E k \in KvKeys, v \in ConnValues : KvSet(k, v)
    \/ \E k \in KvKeys : KvGet(k)
    \/ \E k \in KvKeys : KvDelete(k)

\* connect() has returned Ok, on the API or on the fallback storage
SpecDht == InitStore /\ [][NextDht]_vars

\* C24: dht_get(k) returns the value of the most recent dht_set(k, v) that
\* returned Ok and was not followed by a dht_delete(k), and None if there
\* is none; as the expected map changes at k only, no call for another key
\* changes what is read for k.
C24_ReadsLastWrite ==
    (last.op = "dht_get" /\ last.result = "Ok")
    => last.value = Lookup(expect, asked.v)

\* ---------------------------------------------------------------------
\* URIs.  A string is the sequence of its pieces: ":" and "/" are pieces of
\* their own, every other piece is a run of characters without them, and
\* the empty piece is the empty string.
\* ---------------------------------------------------------------------

\* the scheme name of VeilUri::new
VEIL_SCHEME == "veil"

\* the string: empty pieces add no character to it
Concat(pieces) == SelectSeq(pieces, LAMBDA t : t # "")

\* url: the scheme is lowercased by the parser
SchemeLower(t) == IF t = "VEIL" THEN "veil" ELSE t

\* url: a path segment keeps its ASCII path characters, a space and the
\* bytes of a non-ASCII character are percent-encoded
PercentEncode(t) ==
    CASE t = "caf{e-acute}" -> "caf%C3%A9"
      [] t = "my app" -> "my%20app"
      [] OTHER -> t

\* url::Url::parse: scheme ":" then, after "//", a host up to the next "/"
\* (an empty host is no host), then the path
UrlParse(uri_s) ==
    LET s == Concat(uri_s)
    IN  IF Len(s) < 2 \/ s[1] \in {":", "/"} \/ s[2] # ":"
        THEN Err("UrlParse", "relative URL without a base")
        ELSE LET rest == SubSeq(s, 3, Len(s))
                 authority == Len(rest) >= 2 /\ rest[1] = "/" /\ rest[2] = "/"
                 after == IF authority THEN SubSeq(rest, 3, Len(rest)) ELSE rest
                 hasHost == authority /\ after # <<>> /\ after[1] # "/"
                 path == IF hasHost THEN Tail(after) ELSE after
             IN  Ok([scheme |-> SchemeLower(s[1]),
                     host_str |-> IF hasHost THEN Some(after[1]) ELSE None,
                     path |-> [i \in 1 .. Len(path) |-> PercentEncode(path[i])]])

\* url.path().trim_start_matches('/').split('/').filter(|s| !s.is_empty())
PathParts(path) == SelectSeq(path, LAMBDA t : t # "/")

\* parse_veil_uri
parse_veil_uri(uri_s) ==
    LET url == UrlParse(uri_s)
    IN  IF url.result # "Ok" THEN url
        ELSE IF url.value.scheme # VEIL_SCHEME
        THEN Err("Eyre", "Invalid scheme")
        ELSE LET path_segments ==
                     IF url.value.host_str # None
                     THEN <<url.value.host_str.v>> \o PathParts(url.value.path)
                     ELSE PathParts(url.value.path)
             IN  IF Len(path_segments) < 2
                 THEN Err("Eyre", "not enough segments")
                 ELSE IF path_segments[1] # "app"
                 THEN Err("Eyre", "first segment should be 'app'")
                 ELSE Ok(VeilUri(path_segments[2],
                                 IF Len(path_segments) >= 3
                                 THEN path_segments[3]
                                 ELSE NoVersion))

\* impl fmt::Display for VeilUri
Display(u) ==
    Concat(<<VEIL_SCHEME, ":", "/", "/", "/", "app", "/", u.app_id>>
           \o (IF u.version = NoVersion THEN <<>> ELSE <<"/", u.version>>))

\* the app ids and versions of the URIs that are printed: slugs and
\* semantic versions, a slug with a non-ASCII letter (generate_slug keeps
\* every alphanumeric char), a manifest slug with a space, and the empty
\* slug generate_slug gives a name without alphanumeric chars
UriAppIds == {"my-app", "a", "caf{e-acute}", "my app", ""}

UriVersions == {NoVersion, "1.0.0", "2", ""}

VeilUris == {VeilUri(id, v) : id \in UriAppIds, v \in UriVersions}

\* the strings given to parse_veil_uri: a scheme, ":", zero to three "/",
\* and up to four segments
UriSchemes == {"veil", "VEIL", "http"}

UriSlashes == {<<>>, <<"/">>, <<"/", "/">>, <<"/", "/", "/">>}

UriSegments ==
    {<<>>, <<"app">>, <<"app", "my-app">>, <<"app", "my-app", "1.0.0">>,
     <<"app", "my-app", "1.0.0", "extra">>, <<"invalid", "format">>,
     <<"my-app">>, <<"my-app", "1.0.0">>, <<"apps", "my-app", "1.0.0">>}

RECURSIVE Join(_)
\* the segments with "/" between them
Join(segs) ==
    IF Len(segs) <= 1 THEN segs
    ELSE <<Head(segs), "/">> \o Join(Tail(segs))

UriStrings ==
    {<<scheme, ":">> \o slashes \o Join(segs) :
        scheme \in UriSchemes, slashes \in UriSlashes, segs \in UriSegments}
    \cup {Join(segs) : segs \in UriSegments}

\* println!("{}", uri)
PrintUri ==
    /\ veil_uri # None
    /\ uri_str = None
    /\ uri_str' = Some(Display(veil_uri.v))
    /\ UNCHANGED <<api, state, storage, routing_context, table, core, pc,
                   attempt, attachLog, last, pub, watch, npub, cbVars, gwVars,
                   pkgVars, kvVars, veil_uri, parsed>>

\* parse_veil_uri(&uri_str)
ParseUri ==
    /\ uri_str # None
    /\ parsed = None
    /\ parsed' = Some(parse_veil_uri(uri_str.v))
    /\ UNCHANGED <<api, state, storage, routing_context, table, core, pc,
                   attempt, attachLog, last, pub, watch, npub, cbVars, gwVars,
                   pkgVars, kvVars, veil_uri, uri_str>>

\* either a VeilUri to print and parse back, or a string to parse
InitUri ==
    /\ api = "None"
    /\ state = DefaultState
    /\ storage = EmptyMap
    /\ routing_context = FALSE
    /\ table = EmptyMap
    /\ core = "stopped"
    /\ pc = "idle"
    /\ attempt = 0
    /\ attachLog = NoAttach
    /\ last = NoOp
    /\ pub = PubIdle
    /\ watch = NoWatch
    /\ npub = 0
    /\ CbIdle
    /\ GwIdle
    /\ PkgIdle
    /\ KvIdle
    /\ \/ /\ veil_uri \in {Some(u) : u \in VeilUris}
          /\ uri_str = None
       \/ /\ veil_uri = None
          /\ uri_str \in {Some(s) : s \in UriStrings}
    /\ parsed = None

NextUri ==
    \/ PrintUri
    \/ ParseUri

SpecUri == InitUri /\ [][NextUri]_vars

\* "veil:///app/.." for "veil://app/.." and the other way round, any other
\* string unchanged
Twin(uri_s) ==
    IF Len(uri_s) >= 5 /\ SubSeq(uri_s, 2, 5) = <<":", "/", "/", "app">>
    THEN SubSeq(uri_s, 1, 4) \o <<"/">> \o SubSeq(uri_s, 5, Len(uri_s))
    ELSE IF Len(uri_s) >= 6
            /\ SubSeq(uri_s, 2, 6) = <<":", "/", "/", "/", "app">>
    THEN SubSeq(uri_s, 1, 4) \o SubSeq(uri_s, 6, Len(uri_s))
    ELSE uri_s

\* the segments of a string of UriStrings, and its scheme
SegmentsOf(uri_s) == SelectSeq(uri_s, LAMBDA t : t \notin {":", "/"})

\* C25: parse_veil_uri answers the same for "veil:///app/<id>[/<version>]"
\* and "veil://app/<id>[/<version>]"; it rejects a scheme other than veil,
\* a first segment other than "app" and a URI without an app id; and
\* parsing the string printed for a VeilUri yields that VeilUri
C25_ParseVeilUri ==
    parsed # None =>
        /\ parsed.v = parse_veil_uri(Twin(uri_str.v))
        /\ (veil_uri = None /\ Len(uri_str.v) >= 2 /\ uri_str.v[2] = ":") =>
              LET segs == Tail(SegmentsOf(uri_str.v))
              IN  (\/ SchemeLower(uri_str.v[1]) # VEIL_SCHEME
                   \/ Len(segs) < 2
                   \/ segs[1] # "app") => parsed.v.result # "Ok"
        /\ veil_uri # None => parsed.v = Ok(veil_uri.v)

-----------------------------------------------------------------------------
(* Properties of the store across failed publishes, checked under Spec *)

\* the slugs the slug mapping, the name mapping and the index lead to
ListedSlugs(d) ==
    (DOMAIN SlugMappingOf(d))
    \cup {NameMappingOf(d)[n] : n \in DOMAIN NameMappingOf(d)}
    \cup {IndexOf(d)[k].slug : k \in DOMAIN IndexOf(d)}

\* the metadata stored for the slug
MetadataOf(d, slug) == Deserialize("app_info", d[metadata_key(slug)]).body

\* get_app, with no failing read, finds an app for the identifier
Found(d, id) ==
    \E a \in get_app(d, {"Ok"}, id) : a.result = "Ok" /\ a.value # None

\* C26: in every state of the store, the states inside a publish and those
\* a failed or cancelled publish leaves included, every slug the slug
\* mapping, the name mapping or the index leads to has stored metadata and
\* the package data of (slug, metadata.version) is stored; and a download
\* without a version of an app get_app finds does not answer AppNotFound
C26_ListedSlugsStored ==
    /\ \A slug \in ListedSlugs(Dht) :
          /\ metadata_key(slug) \in DOMAIN Dht
          /\ Dht[metadata_key(slug)].kind = "app_info"
          /\ app_key(slug, MetadataOf(Dht, slug).version) \in DOMAIN Dht
          /\ Dht[app_key(slug, MetadataOf(Dht, slug).version)].kind = "package"
    /\ \A id \in Ids :
          Found(Dht, id) =>
             \A r \in download(Dht, {"Ok"}, VeilUri(id, NoVersion)) :
                r.result = "Ok"

\* C27: after two publish calls that both returned Ok, the index holds one
\* entry per slug published, the entry is the app info of the most recent
\* publish of the slug and has the version of the stored metadata, and
\* search with the default filter returns these entries: no entry of an
\* earlier publish is lost
C27_NoLostUpdate ==
    (/\ npub = 2 /\ pub.pc = "idle"
     /\ watch.on /\ watch.n = 1
     /\ last.op = "publish" /\ last.result = "Ok")
    => LET first == AppInfoOf(watch.package)
           second == AppInfoOf(last.value.v.package)
           expected == Put(Put(EmptyMap, first.slug, first), second.slug, second)
       IN  /\ IndexOf(Dht) = expected
           /\ \A slug \in DOMAIN expected :
                 /\ metadata_key(slug) \in DOMAIN Dht
                 /\ MetadataOf(Dht, slug).version = expected[slug].version
           /\ search(Dht, {"Ok"}) =
                 {Res("Ok", Some({expected[k] : k \in DOMAIN expected}), TRUE)}

\* the files of the source directory, path -> contents
SourceFiles ==
    [path \in {source_dir[i].path : i \in 1 .. Len(source_dir)} |->
        LET i == CHOOSE i \in 1 .. Len(source_dir) : source_dir[i].path = path
        IN  source_dir[i].body]

\* C28: for the file build has written from a valid manifest, from_bytes returns the manifest
\* build generated and put into the archive (the signature still empty),
\* and extract_files returns every file of the source directory, also when
\* the directory has a file named veilid.json at its root or below it
C28_GeneratedManifestAndAllFiles ==
    (/\ PackageAt("built") # None
     /\ tampered = None
     /\ validate_manifest(built.value.manifest) = "Ok"
     /\ file = built.value.content)
    => /\ loaded # None =>
             /\ loaded.result = "Ok"
             /\ loaded.value.manifest =
                   [built.value.manifest EXCEPT !.signature = EmptyString]
       /\ extracted # None => extracted.value = SourceFiles

-----------------------------------------------------------------------------
(* Properties of the gateway when a TXT record changes, checked under SpecGw *)

\* C29: the content the gateway serves for a domain belongs to the record
\* id the domain's TXT record resolves to for that request: a request served
\* from the AppCache is served the package of the record id its own TXT
\* lookup gave, also when the TXT record was changed after the domain was
\* cached
C29_ServesCurrentRecord ==
    [][\A r \in Requests :
         (/\ req[r].pc = "cache"
          /\ req'[r].pc = "done"
          /\ req'[r].via = "memory")
         => SlugOf(cache[req[r].domain.v].package) = req[r].dht_key]_vars

\* C30: a request that arrives when the AppCache holds an entry for its
\* domain never waits for AppState.store and never locks it: at the cache
\* lookup it can always go on, whoever holds the store, and that step
\* returns its response; and the store is locked only by a request that has
\* missed the AppCache and then found no directory for its domain
C30_CacheHitWithoutStoreLock ==
    /\ [](\A r \in Requests :
            (req[r].pc \notin {"idle", "done"} /\ req[r].late)
            => /\ req[r].pc \in {"lookup", "cache"}
               /\ store_lock # r
               /\ req[r].pc = "cache" => ENABLED ReqCache(r))
    /\ [][\A r \in Requests :
            /\ (req[r].pc = "cache" /\ req[r].late /\ req'[r] # req[r])
               => /\ req'[r].pc = "done"
                  /\ req'[r].via = "memory"
                  /\ store_lock' = store_lock
            /\ (store_lock' = r /\ store_lock # r) => req[r].pc = "lock"
            /\ (req'[r].pc = "lock" /\ req[r].pc # "lock")
               => /\ req[r].pc = "dir"
                  /\ req[r].domain.v \notin DOMAIN disk
            /\ (req'[r].pc = "dir" /\ req[r].pc # "dir")
               => /\ req[r].pc = "cache"
                  /\ req[r].domain.v \notin DOMAIN cache]_vars

\* C30: a request for a cached domain has been served from the AppCache
\* while another request, for another domain, held the store for its
\* download
C30_Witness ==
    \E r, o \in Requests :
       /\ r # o
       /\ req[r].pc = "done" /\ req[r].via = "memory" /\ req[r].late
       /\ req[r].resp.status = 200
       /\ req[r].held = o
       /\ store_lock = o
       /\ req[o].pc = "download"
       /\ req[o].domain # req[r].domain

====
